---- MODULE Spec2Model ----
(***************************************************************************)
(* Maze escape game: the maze generator (MazeGenerator, the variant with   *)
(* addLoops / addDeadEnds / ensureSolvable), its breadth-first path        *)
(* finder, and the pursuit logic of Game (the variant with freezeTimeout). *)
(***************************************************************************)
EXTENDS Integers, Sequences, FiniteSets, TLC

\* ------------------------------------------------------------------------
\* Bounds of the model
\* ------------------------------------------------------------------------
MaxW == 3
MaxH == 3
MaxCells == 7
MaxDifficulty == 1
MaxPathCells == 6
MaxLevel == 2
TickMs == 1000
MaxFrameGap == 1
MaxRestarts == 1
MaxSetupLevel == 14
MaxOlderDifficulty == 4
MaxEnsureRuns == 2
MaxPursuitCells == 4
PursuitTickMs == 200
LongFrame == 5
MaxPowerUpCells == 8
MaxPowerUpLevel == 8

\* ------------------------------------------------------------------------
\* Program constants of MazeGenerator.generate
\* ------------------------------------------------------------------------
LoopBase == 10
LoopPerLevel == 2
LoopCap == 30
DeadEndBase == 5
DeadEndCap == 15
DeadEndBaseOlder == 5
DeadEndPerLevelOlder == 2
DeadEndCapOlder == 20
ExtraWallsAbove == 3
ExtraWallsPerLevel == 3
ExtraWallsCap == 40

\* ------------------------------------------------------------------------
\* Program constants of Game
\* ------------------------------------------------------------------------
ArmDelay == 5000
NextLevelDelay == 1000
PowerUpDuration == 5000
baseSpeed == 400
SpeedNumerator == 4
SpeedDenominator == 5
MinSpeed == 50
playerSpeed == 150
baseSize == 10
SizeCap == 40
baseSpeedFirst == 200
SpeedStepFirst == 20

VARIABLES
  width,       \* MazeGenerator.width
  height,      \* MazeGenerator.height
  difficulty,  \* argument of generate
  cells,       \* MazeGenerator.cells: position -> [walls, visited]
  pc,          \* position inside generate
  stack,       \* call stack of generateMazeRecursive: the (x, y) of every open frame
  i,           \* loop counter of addLoops / addDeadEnds
  lastOpen,    \* the wall pair the latest generation step opened, if any
  attempts,    \* the counts generate passes to addLoops and addDeadEnds
  qStart,      \* arguments and result of the last findPath / getCell call
  qEnd,
  qResult,
  qCell,
  \* Game (state: GameState and the private fields of Game)
  level,
  playerPosition,
  playerStartPosition,
  exitPosition,
  enemyPosition,
  enemyActive,
  enemySpeed,
  gameOver,
  levelComplete,
  powerUps,
  activePowerUps,
  enemyPath,
  enemyPathIndex,
  enemyMoveTimer,
  freezeTimeout,   \* handle of the pending freeze timer, 0 for null
  timers,          \* the pending setTimeout callbacks
  sinceFrame,      \* time since the last update call (currentTime - lastTime)
  sinceMove,       \* Date.now() - lastMoveTime, kept up to playerSpeed
  sinceStart,      \* time since the latest startLevel, kept up to the arm delay
  freezeLeft,      \* what is left of the freeze window opened in this level
  frozenActive,    \* the pending freeze was applied while the adversary was active
  event,           \* what the latest step was
  restarts,        \* how many times restart has run
  variant,         \* which of the two versions of Game in game.ts runs: 1 or 2
  twin             \* a second, independent Game run on the same maze, fed the same input

mazeVars == <<width, height, difficulty, cells, pc, stack, i, lastOpen, attempts>>
queryVars == <<qStart, qEnd, qResult, qCell>>
gameVars == <<level, playerPosition, playerStartPosition, exitPosition, enemyPosition,
              enemyActive, enemySpeed, gameOver, levelComplete, powerUps, activePowerUps,
              enemyPath, enemyPathIndex, enemyMoveTimer, freezeTimeout, timers,
              sinceFrame, sinceMove, sinceStart, freezeLeft, frozenActive, event, restarts, variant,
          twin>>
vars == <<width, height, difficulty, cells, pc, stack, i, lastOpen, attempts,
          qStart, qEnd, qResult, qCell,
          level, playerPosition, playerStartPosition, exitPosition, enemyPosition,
          enemyActive, enemySpeed, gameOver, levelComplete, powerUps, activePowerUps,
          enemyPath, enemyPathIndex, enemyMoveTimer, freezeTimeout, timers,
          sinceFrame, sinceMove, sinceStart, freezeLeft, frozenActive, event, restarts, variant,
          twin>>

\* ------------------------------------------------------------------------
\* Grid / Cell model
\* ------------------------------------------------------------------------
Pos(x, y) == [x |-> x, y |-> y]

Grid(w, h) == {Pos(x, y) : x \in 0..(w - 1), y \in 0..(h - 1)}

NoPos == [x |-> -9, y |-> -9]

Min(a, b) == IF a < b THEN a ELSE b

\* Math.floor(Math.random() * n) for an integer n: Math.random() is in [0, 1)
RandomIndex(n) == IF n <= 0 THEN {0} ELSE 0..(n - 1)

\* variant: the right wall of every cell starts open
initializeCells_rightOpen(w, h) ==
  [p \in Grid(w, h) |->
     [walls |-> [top |-> TRUE, right |-> FALSE, bottom |-> TRUE, left |-> TRUE],
      visited |-> FALSE]]

initializeCells(w, h) ==
  [p \in Grid(w, h) |->
     [walls |-> [top |-> TRUE, right |-> TRUE, bottom |-> TRUE, left |-> TRUE],
      visited |-> FALSE]]

\* the direction table of generateMazeRecursive
directions ==
  << [dx |-> 0, dy |-> -1, wall |-> "top", oppositeWall |-> "bottom"],
     [dx |-> 1, dy |-> 0, wall |-> "right", oppositeWall |-> "left"],
     [dx |-> 0, dy |-> 1, wall |-> "bottom", oppositeWall |-> "top"],
     [dx |-> -1, dy |-> 0, wall |-> "left", oppositeWall |-> "right"] >>

wallNames == <<"top", "right", "bottom", "left">>

getOppositeDirection(direction) ==
  CASE direction = "top" -> "bottom"
    [] direction = "bottom" -> "top"
    [] direction = "left" -> "right"
    [] direction = "right" -> "left"
    [] OTHER -> direction

\* null is modelled by NoPos
getNeighborPosition(w, h, x, y, direction) ==
  CASE direction = "top" -> IF y > 0 THEN Pos(x, y - 1) ELSE NoPos
    [] direction = "bottom" -> IF y < h - 1 THEN Pos(x, y + 1) ELSE NoPos
    [] direction = "left" -> IF x > 0 THEN Pos(x - 1, y) ELSE NoPos
    [] direction = "right" -> IF x < w - 1 THEN Pos(x + 1, y) ELSE NoPos
    [] OTHER -> NoPos

countOpenings(cell) ==
  (IF ~cell.walls.top THEN 1 ELSE 0) + (IF ~cell.walls.right THEN 1 ELSE 0)
  + (IF ~cell.walls.bottom THEN 1 ELSE 0) + (IF ~cell.walls.left THEN 1 ELSE 0)

canCreateDeadEnd(c, x, y) == countOpenings(c[Pos(x, y)]) = 1

\* Fisher-Yates: every outcome of the draws j = floor(random * (k + 1)), k = len-1 .. 1
\* (sequences are 1-based here, so position k of the source is k + 1)
SwapAt(arr, a, b) == [arr EXCEPT ![a] = arr[b], ![b] = arr[a]]

RECURSIVE shuffleFrom(_, _)
shuffleFrom(arr, k) ==
  IF k <= 0 THEN {arr}
  ELSE UNION {shuffleFrom(SwapAt(arr, k + 1, j + 1), k - 1) : j \in RandomIndex(k + 1)}

shuffleArray(arr) == shuffleFrom(arr, Len(arr) - 1)

\* the outcomes of the two shuffles the generator makes
directionOrders == shuffleArray(directions)

wallOrders == shuffleArray(wallNames)

\* ------------------------------------------------------------------------
\* Wall writes of the generation steps (each writes both sides)
\* ------------------------------------------------------------------------
carveWalls(c, p, q, dir) ==
  [c EXCEPT ![p].walls[dir.wall] = FALSE, ![q].walls[dir.oppositeWall] = FALSE]

\* variant: only the cell's own flag is cleared
removeRightWall_oneSided(c, x, y) ==
  [c EXCEPT ![Pos(x, y)].walls.right = FALSE]

removeRightWall(c, x, y) ==
  [c EXCEPT ![Pos(x, y)].walls.right = FALSE, ![Pos(x + 1, y)].walls.left = FALSE]

removeBottomWall(c, x, y) ==
  [c EXCEPT ![Pos(x, y)].walls.bottom = FALSE, ![Pos(x, y + 1)].walls.top = FALSE]

openDeadEndWall(c, p, dir, neighbor) ==
  [c EXCEPT ![p].walls[dir] = FALSE, ![neighbor].walls[getOppositeDirection(dir)] = FALSE]

loopCount_uncapped(d) == LoopBase + d * LoopPerLevel

loopCount(d) == Min(LoopBase + d * LoopPerLevel, LoopCap)

deadEndCount(d) == Min(DeadEndBase + d, DeadEndCap)

\* ------------------------------------------------------------------------
\* Path finder
\* ------------------------------------------------------------------------
key(p) == <<p.x, p.y>>

cellDefined(w, h, pos) == pos.x >= 0 /\ pos.x < w /\ pos.y >= 0 /\ pos.y < h

\* variant: the wall flags are not looked at
getValidNeighbors_noWalls(c, w, h, pos) ==
  (IF pos.y > 0 THEN <<Pos(pos.x, pos.y - 1)>> ELSE <<>>)
  \o (IF pos.x < w - 1 THEN <<Pos(pos.x + 1, pos.y)>> ELSE <<>>)
  \o (IF pos.y < h - 1 THEN <<Pos(pos.x, pos.y + 1)>> ELSE <<>>)
  \o (IF pos.x > 0 THEN <<Pos(pos.x - 1, pos.y)>> ELSE <<>>)

getValidNeighbors(c, w, h, pos) ==
  LET cell == c[pos] IN
    (IF ~cell.walls.top /\ pos.y > 0 THEN <<Pos(pos.x, pos.y - 1)>> ELSE <<>>)
    \o (IF ~cell.walls.right /\ pos.x < w - 1 THEN <<Pos(pos.x + 1, pos.y)>> ELSE <<>>)
    \o (IF ~cell.walls.bottom /\ pos.y < h - 1 THEN <<Pos(pos.x, pos.y + 1)>> ELSE <<>>)
    \o (IF ~cell.walls.left /\ pos.x > 0 THEN <<Pos(pos.x - 1, pos.y)>> ELSE <<>>)

\* variant: a neighbour goes to the front of the queue (unshift for push)
RECURSIVE pushNeighbors_front(_, _, _, _, _)
pushNeighbors_front(neighbors, n, queue, visited, path) ==
  IF n > Len(neighbors) THEN [queue |-> queue, visited |-> visited]
  ELSE LET neighbor == neighbors[n] IN
    IF key(neighbor) \notin visited
    THEN pushNeighbors_front(neighbors, n + 1,
                             <<[pos |-> neighbor, path |-> Append(path, neighbor)]>> \o queue,
                             visited \cup {key(neighbor)}, path)
    ELSE pushNeighbors_front(neighbors, n + 1, queue, visited, path)

\* the for loop over the neighbours of one dequeued entry
RECURSIVE pushNeighbors(_, _, _, _, _)
pushNeighbors(neighbors, n, queue, visited, path) ==
  IF n > Len(neighbors) THEN [queue |-> queue, visited |-> visited]
  ELSE LET neighbor == neighbors[n] IN
    IF key(neighbor) \notin visited
    THEN pushNeighbors(neighbors, n + 1,
                       Append(queue, [pos |-> neighbor, path |-> Append(path, neighbor)]),
                       visited \cup {key(neighbor)}, path)
    ELSE pushNeighbors(neighbors, n + 1, queue, visited, path)

\* the while loop; a result is [threw, path]: threw is the TypeError raised by
\* this.cells[pos.y][pos.x].walls when no such cell exists
RECURSIVE searchLoop(_, _, _, _, _, _)
searchLoop(c, w, h, queue, visited, end) ==
  IF queue = <<>> THEN [threw |-> FALSE, path |-> <<>>]
  ELSE LET pos == Head(queue).pos
           path == Head(queue).path
       IN IF pos.x = end.x /\ pos.y = end.y THEN [threw |-> FALSE, path |-> path]
          ELSE IF ~cellDefined(w, h, pos) THEN [threw |-> TRUE, path |-> <<>>]
          ELSE LET r == pushNeighbors(getValidNeighbors(c, w, h, pos), 1,
                                      Tail(queue), visited, path)
               IN searchLoop(c, w, h, r.queue, r.visited, end)

\* variant: the first queue entry carries an empty path
findPath_emptyStart(c, w, h, start, end) ==
  searchLoop(c, w, h, <<[pos |-> start, path |-> <<>>]>>, {key(start)}, end)

findPath(c, w, h, start, end) ==
  searchLoop(c, w, h, <<[pos |-> start, path |-> <<start>>]>>, {key(start)}, end)

\* variant: the search keeps its marks in the visited flags of the cells
cellsAfterFindPath_visitedFlags(c, w, h, start, end) ==
  LET onPath == {findPath(c, w, h, start, end).path[k] :
                   k \in 1..Len(findPath(c, w, h, start, end).path)}
  IN [p \in Grid(w, h) |-> [c[p] EXCEPT !.visited = (p \in onPath)]]

\* this.cells after a call of findPath: the queue and the visited Set are locals of the
\* call, and neither findPath nor getValidNeighbors assigns to a cell
cellsAfterFindPath(c, w, h, start, end) == c

\* the result of getCell: null, or the cell
Null == [null |-> TRUE]

getCell(c, w, h, x, y) ==
  IF x >= 0 /\ x < w /\ y >= 0 /\ y < h THEN [null |-> FALSE, cell |-> c[Pos(x, y)]] ELSE Null

corners(w, h) == <<Pos(0, 0), Pos(w - 1, 0), Pos(0, h - 1), Pos(w - 1, h - 1)>>

\* variant: a path of one cell counts as no path
cornersJoined_longPaths(c, w, h) ==
  \A a \in 1..4 : \A b \in (a + 1)..4 :
    Len(findPath(c, w, h, corners(w, h)[a], corners(w, h)[b]).path) > 1

\* variant: only the first pair of corners is looked at
cornersJoined_firstPair(c, w, h) ==
  Len(findPath(c, w, h, corners(w, h)[1], corners(w, h)[2]).path) # 0

\* TRUE when ensureSolvable finds every corner pair joined
cornersJoined(c, w, h) ==
  \A a \in 1..4 : \A b \in (a + 1)..4 :
    Len(findPath(c, w, h, corners(w, h)[a], corners(w, h)[b]).path) # 0

\* ------------------------------------------------------------------------
\* generate(difficulty), one step at a time
\* ------------------------------------------------------------------------
NoQuery == [threw |-> FALSE, path |-> <<>>]

NoCell == [none |-> TRUE]

NoEvent == [name |-> "none", stale |-> FALSE, acted |-> FALSE]

\* no second run
NoTwin == [none |-> TRUE]

\* no Game object: the generator and the path finder on their own
NoGame ==
  /\ level = 0
  /\ playerPosition = NoPos
  /\ playerStartPosition = NoPos
  /\ exitPosition = NoPos
  /\ enemyPosition = NoPos
  /\ enemyActive = FALSE
  /\ enemySpeed = 0
  /\ gameOver = FALSE
  /\ levelComplete = FALSE
  /\ powerUps = <<>>
  /\ activePowerUps = <<>>
  /\ enemyPath = <<>>
  /\ enemyPathIndex = 0
  /\ enemyMoveTimer = 0
  /\ freezeTimeout = 0
  /\ timers = {}
  /\ sinceFrame = 0
  /\ sinceMove = 0
  /\ sinceStart = 0
  /\ freezeLeft = 0
  /\ frozenActive = FALSE
  /\ event = NoEvent
  /\ restarts = 0
  /\ variant = 0
  /\ twin = NoTwin

NoAttempts == [loops |-> 0, deadEnds |-> 0]

NoOpen == [step |-> "none", from |-> NoPos, to |-> NoPos]

InitMaze ==
  /\ width \in 1..MaxW
  /\ height \in 1..MaxH
  /\ width * height <= MaxCells
  /\ difficulty \in 1..MaxDifficulty
  /\ cells = [p \in Grid(width, height) |-> [walls |-> [top |-> TRUE, right |-> TRUE,
                 bottom |-> TRUE, left |-> TRUE], visited |-> FALSE]]
  /\ pc = "start"
  /\ stack = <<>>
  /\ i = 0
  /\ lastOpen = NoOpen
  /\ attempts = NoAttempts
  /\ qStart = NoPos
  /\ qEnd = NoPos
  /\ qResult = NoQuery
  /\ qCell = NoCell
  /\ NoGame

\* generate: initializeCells and the call generateMazeRecursive(0, 0)
Generate ==
  /\ pc = "start"
  /\ cells' = [initializeCells(width, height) EXCEPT ![Pos(0, 0)].visited = TRUE]
  /\ stack' = <<Pos(0, 0)>>
  /\ pc' = "carve"
  /\ i' = 0
  /\ lastOpen' = NoOpen
  /\ attempts' = [loops |-> loopCount(difficulty), deadEnds |-> deadEndCount(difficulty)]
  /\ UNCHANGED <<width, height, difficulty, queryVars, gameVars>>

\* variant: the bound on nx is off by one
validDirection_offByOne(c, w, h, p, dir) ==
  LET nx == p.x + dir.dx
      ny == p.y + dir.dy
  IN nx >= 0 /\ nx < w - 1 /\ ny >= 0 /\ ny < h /\ ~c[Pos(nx, ny)].visited

validDirection(c, w, h, p, dir) ==
  LET nx == p.x + dir.dx
      ny == p.y + dir.dy
  IN nx >= 0 /\ nx < w /\ ny >= 0 /\ ny < h /\ ~c[Pos(nx, ny)].visited

\* One frame of generateMazeRecursive runs its for loop up to the next
\* recursive call, or to its end.  A direction the loop has already passed is
\* out of the grid or leads to a visited cell, and stays so; hence the next
\* direction taken is the first valid one of some shuffled order.
CarveStep ==
  /\ pc \in {"carve", "recarve"}
  /\ stack # <<>>
  /\ LET p == stack[Len(stack)] IN
     \E order \in directionOrders :
       LET valid == {k \in 1..4 : validDirection(cells, width, height, p, order[k])} IN
         IF valid = {}
         THEN /\ stack' = SubSeq(stack, 1, Len(stack) - 1)
              /\ lastOpen' = NoOpen
              /\ UNCHANGED cells
         ELSE LET dir == order[CHOOSE k \in valid : \A m \in valid : k <= m]
                  q == Pos(p.x + dir.dx, p.y + dir.dy)
              IN /\ cells' = [carveWalls(cells, p, q, dir) EXCEPT ![q].visited = TRUE]
                 /\ stack' = Append(stack, q)
                 /\ lastOpen' = [step |-> "carve", from |-> p, to |-> q]
  /\ UNCHANGED <<width, height, difficulty, attempts, pc, i, queryVars, gameVars>>

\* generateMazeRecursive(0, 0) has returned
CarveDone ==
  /\ pc \in {"carve", "recarve"}
  /\ stack = <<>>
  /\ pc' = IF pc = "carve" THEN "loops" ELSE "done"
  /\ i' = 0
  /\ lastOpen' = NoOpen
  /\ UNCHANGED <<width, height, difficulty, attempts, cells, stack, queryVars, gameVars>>

\* variant: the tests x < width - 1 and y < height - 1 are left out
addLoopsIteration_unguarded(c, w, h, x, y, horizontal) ==
  IF horizontal
  THEN IF ~c[Pos(x, y)].walls.right THEN c
       ELSE IF x < w - 1 THEN removeRightWall(c, x, y)
       ELSE [c EXCEPT ![Pos(x, y)].walls.right = FALSE]
  ELSE IF ~c[Pos(x, y)].walls.bottom THEN c
       ELSE IF y < h - 1 THEN removeBottomWall(c, x, y)
       ELSE [c EXCEPT ![Pos(x, y)].walls.bottom = FALSE]

\* one iteration of the for loop of addLoops
addLoopsIteration(c, w, h, x, y, horizontal) ==
  IF horizontal
  THEN IF x < w - 1 /\ c[Pos(x, y)].walls.right THEN removeRightWall(c, x, y) ELSE c
  ELSE IF y < h - 1 /\ c[Pos(x, y)].walls.bottom THEN removeBottomWall(c, x, y) ELSE c

AddLoopsStep ==
  /\ pc = "loops"
  /\ i < attempts.loops
  /\ \E x \in RandomIndex(width - 1), y \in RandomIndex(height - 1), horizontal \in BOOLEAN :
       /\ cells' = addLoopsIteration(cells, width, height, x, y, horizontal)
       /\ lastOpen' = IF cells' = cells THEN NoOpen
                      ELSE [step |-> "loop", from |-> Pos(x, y),
                            to |-> IF horizontal THEN Pos(x + 1, y) ELSE Pos(x, y + 1)]
  /\ i' = i + 1
  /\ UNCHANGED <<width, height, difficulty, attempts, pc, stack, queryVars, gameVars>>

AddLoopsDone ==
  /\ pc = "loops"
  /\ i >= attempts.loops
  /\ pc' = "deadends"
  /\ i' = 0
  /\ lastOpen' = NoOpen
  /\ UNCHANGED <<width, height, difficulty, attempts, cells, stack, queryVars, gameVars>>

\* the direction the inner for loop of addDeadEnds breaks on, "none" if it ends
deadEndDirection(c, w, h, x, y, order) ==
  LET cand == {k \in 1..4 :
                 /\ c[Pos(x, y)].walls[order[k]]
                 /\ LET neighbor == getNeighborPosition(w, h, x, y, order[k])
                    IN neighbor # NoPos /\ canCreateDeadEnd(c, neighbor.x, neighbor.y)}
  IN IF cand = {} THEN "none" ELSE order[CHOOSE k \in cand : \A m \in cand : k <= m]

\* one iteration of the outer for loop of addDeadEnds
addDeadEndsIteration(c, w, h, x, y, order) ==
  LET openings == countOpenings(c[Pos(x, y)])
      dir == deadEndDirection(c, w, h, x, y, order)
  IN IF openings >= 2 /\ openings <= 3 /\ dir # "none"
     THEN openDeadEndWall(c, Pos(x, y), dir, getNeighborPosition(w, h, x, y, dir))
     ELSE c

AddDeadEndsStep ==
  /\ pc = "deadends"
  /\ i < attempts.deadEnds
  /\ \E x \in RandomIndex(width), y \in RandomIndex(height) :
       LET openings == countOpenings(cells[Pos(x, y)]) IN
         IF openings >= 2 /\ openings <= 3
         THEN \E order \in wallOrders :
                /\ cells' = addDeadEndsIteration(cells, width, height, x, y, order)
                /\ lastOpen' =
                     IF cells' = cells THEN NoOpen
                     ELSE [step |-> "deadend", from |-> Pos(x, y),
                           to |-> getNeighborPosition(width, height, x, y,
                                    deadEndDirection(cells, width, height, x, y, order))]
         ELSE /\ cells' = addDeadEndsIteration(cells, width, height, x, y, wallNames)
              /\ lastOpen' = NoOpen
  /\ i' = i + 1
  /\ UNCHANGED <<width, height, difficulty, attempts, pc, stack, queryVars, gameVars>>

AddDeadEndsDone ==
  /\ pc = "deadends"
  /\ i >= attempts.deadEnds
  /\ pc' = "ensure"
  /\ i' = 0
  /\ lastOpen' = NoOpen
  /\ UNCHANGED <<width, height, difficulty, attempts, cells, stack, queryVars, gameVars>>

\* ensureSolvable: on an unreachable corner pair, initializeCells and carve again
EnsureSolvable ==
  /\ pc = "ensure"
  /\ IF cornersJoined(cells, width, height)
     THEN /\ pc' = "done"
          /\ UNCHANGED <<cells, stack>>
     ELSE /\ cells' = [initializeCells(width, height) EXCEPT ![Pos(0, 0)].visited = TRUE]
          /\ stack' = <<Pos(0, 0)>>
          /\ pc' = "recarve"
  /\ lastOpen' = NoOpen
  /\ UNCHANGED <<width, height, difficulty, attempts, i, queryVars, gameVars>>

\* a caller asks for a path on the maze generate returned
FindPathCall(positions) ==
  /\ pc = "done"
  /\ qStart = NoPos
  /\ \E start \in positions, end \in positions :
       /\ qStart' = start
       /\ qEnd' = end
       /\ qResult' = findPath(cells, width, height, start, end)
       /\ cells' = cellsAfterFindPath(cells, width, height, start, end)
  /\ qCell' = NoCell
  /\ UNCHANGED <<width, height, difficulty, attempts, pc, stack, i, lastOpen, gameVars>>

FindPathInGrid == FindPathCall(Grid(width, height))

\* the caller has used the result; the next call can be made
Return ==
  /\ qStart # NoPos
  /\ qStart' = NoPos
  /\ qEnd' = NoPos
  /\ qResult' = NoQuery
  /\ qCell' = NoCell
  /\ UNCHANGED <<mazeVars, gameVars>>

NextMaze ==
  \/ Generate
  \/ CarveStep
  \/ CarveDone
  \/ AddLoopsStep
  \/ AddLoopsDone
  \/ AddDeadEndsStep
  \/ AddDeadEndsDone
  \/ EnsureSolvable
  \/ FindPathInGrid
  \/ Return

SpecMaze == InitMaze /\ [][NextMaze]_vars

\* ------------------------------------------------------------------------
\* The older generator (src/maze.ts): carve, addDeadEnds, then addExtraWalls when
\* difficulty > 3; it adds no loops and does not verify solvability
\* ------------------------------------------------------------------------
deadEndCountOlder(d) == Min(DeadEndBaseOlder + d * DeadEndPerLevelOlder, DeadEndCapOlder)

extraWallCount(d) == Min(d * ExtraWallsPerLevel, ExtraWallsCap)

\* Math.floor(Math.random() * (n - 2)) + 1: with n = 1 the product lies in (-1, 0],
\* and its floor is -1, or 0 when Math.random() returns 0
InnerIndex(n) == IF n >= 3 THEN 1..(n - 2) ELSE IF n = 2 THEN {1} ELSE {0, 1}

hasAlternativePath(c, x, y, wallToAdd) ==
  Cardinality({wl \in {"top", "right", "bottom", "left"} :
                 ~c[Pos(x, y)].walls[wl] /\ wallToAdd # wl}) >= 1

closeWall(c, w, h, x, y, wall) ==
  LET neighbor == getNeighborPosition(w, h, x, y, wall)
      own == [c EXCEPT ![Pos(x, y)].walls[wall] = TRUE]
  IN IF neighbor # NoPos
     THEN [own EXCEPT ![neighbor].walls[getOppositeDirection(wall)] = TRUE]
     ELSE own

\* one iteration of the for loop of addExtraWalls on a cell of the grid
addExtraWallsIteration(c, w, h, x, y, wall) ==
  IF hasAlternativePath(c, x, y, wall) THEN closeWall(c, w, h, x, y, wall) ELSE c

\* one iteration of the outer for loop of the older addDeadEnds
addDeadEndsIterationOlder(c, w, h, x, y, order) ==
  LET openings == countOpenings(c[Pos(x, y)])
      dir == deadEndDirection(c, w, h, x, y, order)
  IN IF openings = 2 /\ dir # "none"
     THEN openDeadEndWall(c, Pos(x, y), dir, getNeighborPosition(w, h, x, y, dir))
     ELSE c

InitMazeOlder ==
  /\ width \in 1..MaxW
  /\ height \in 1..MaxH
  /\ width * height <= MaxCells
  /\ difficulty \in 1..MaxOlderDifficulty
  /\ cells = [p \in Grid(width, height) |-> [walls |-> [top |-> TRUE, right |-> TRUE,
                 bottom |-> TRUE, left |-> TRUE], visited |-> FALSE]]
  /\ pc = "start"
  /\ stack = <<>>
  /\ i = 0
  /\ lastOpen = NoOpen
  /\ attempts = [deadEnds |-> 0, extraWalls |-> 0]
  /\ qStart = NoPos
  /\ qEnd = NoPos
  /\ qResult = NoQuery
  /\ qCell = NoCell
  /\ NoGame

\* generate: initializeCells and the call generateMazeRecursive(0, 0)
GenerateOlder ==
  /\ pc = "start"
  /\ cells' = [initializeCells(width, height) EXCEPT ![Pos(0, 0)].visited = TRUE]
  /\ stack' = <<Pos(0, 0)>>
  /\ pc' = "carve"
  /\ i' = 0
  /\ lastOpen' = NoOpen
  /\ attempts' = [deadEnds |-> deadEndCountOlder(difficulty),
                  extraWalls |-> IF difficulty > ExtraWallsAbove
                                 THEN extraWallCount(difficulty) ELSE 0]
  /\ UNCHANGED <<width, height, difficulty, queryVars, gameVars>>

\* one frame of generateMazeRecursive, as in CarveStep
CarveStepOlder ==
  /\ pc = "carve"
  /\ stack # <<>>
  /\ LET p == stack[Len(stack)] IN
     \E order \in directionOrders :
       LET valid == {k \in 1..4 : validDirection(cells, width, height, p, order[k])} IN
         IF valid = {}
         THEN /\ stack' = SubSeq(stack, 1, Len(stack) - 1)
              /\ lastOpen' = NoOpen
              /\ UNCHANGED cells
         ELSE LET dir == order[CHOOSE k \in valid : \A m \in valid : k <= m]
                  q == Pos(p.x + dir.dx, p.y + dir.dy)
              IN /\ cells' = [carveWalls(cells, p, q, dir) EXCEPT ![q].visited = TRUE]
                 /\ stack' = Append(stack, q)
                 /\ lastOpen' = [step |-> "carve", from |-> p, to |-> q]
  /\ UNCHANGED <<width, height, difficulty, attempts, pc, i, queryVars, gameVars>>

\* generateMazeRecursive(0, 0) has returned
CarveDoneOlder ==
  /\ pc = "carve"
  /\ stack = <<>>
  /\ pc' = "deadends"
  /\ i' = 0
  /\ lastOpen' = NoOpen
  /\ UNCHANGED <<width, height, difficulty, attempts, cells, stack, queryVars, gameVars>>

AddDeadEndsStepOlder ==
  /\ pc = "deadends"
  /\ i < attempts.deadEnds
  /\ \E x \in RandomIndex(width), y \in RandomIndex(height) :
       IF countOpenings(cells[Pos(x, y)]) = 2
       THEN \E order \in wallOrders :
              /\ cells' = addDeadEndsIterationOlder(cells, width, height, x, y, order)
              /\ lastOpen' =
                   IF cells' = cells THEN NoOpen
                   ELSE [step |-> "deadend", from |-> Pos(x, y),
                         to |-> getNeighborPosition(width, height, x, y,
                                  deadEndDirection(cells, width, height, x, y, order))]
       ELSE /\ cells' = addDeadEndsIterationOlder(cells, width, height, x, y, wallNames)
            /\ lastOpen' = NoOpen
  /\ i' = i + 1
  /\ UNCHANGED <<width, height, difficulty, attempts, pc, stack, queryVars, gameVars>>

\* addDeadEnds has returned: addExtraWalls is called when difficulty > 3
AddDeadEndsDoneOlder ==
  /\ pc = "deadends"
  /\ i >= attempts.deadEnds
  /\ pc' = IF difficulty > ExtraWallsAbove THEN "extrawalls" ELSE "done"
  /\ i' = 0
  /\ lastOpen' = NoOpen
  /\ UNCHANGED <<width, height, difficulty, attempts, cells, stack, queryVars, gameVars>>

\* one iteration of addExtraWalls; this.cells[y][x].walls throws a TypeError when the
\* drawn cell does not exist
AddExtraWallsStep ==
  /\ pc = "extrawalls"
  /\ i < attempts.extraWalls
  /\ \E x \in InnerIndex(width), y \in InnerIndex(height), wall \in {"top", "right", "bottom", "left"} :
       IF cellDefined(width, height, Pos(x, y))
       THEN /\ cells' = addExtraWallsIteration(cells, width, height, x, y, wall)
            /\ lastOpen' = IF cells' = cells THEN NoOpen
                           ELSE [step |-> "wall", from |-> Pos(x, y),
                                 to |-> getNeighborPosition(width, height, x, y, wall)]
            /\ pc' = pc
            /\ i' = i + 1
       ELSE /\ pc' = "threw"
            /\ lastOpen' = NoOpen
            /\ UNCHANGED <<cells, i>>
  /\ UNCHANGED <<width, height, difficulty, attempts, stack, queryVars, gameVars>>

AddExtraWallsDone ==
  /\ pc = "extrawalls"
  /\ i >= attempts.extraWalls
  /\ pc' = "done"
  /\ i' = 0
  /\ lastOpen' = NoOpen
  /\ UNCHANGED <<width, height, difficulty, attempts, cells, stack, queryVars, gameVars>>

NextMazeOlder ==
  \/ GenerateOlder
  \/ CarveStepOlder
  \/ CarveDoneOlder
  \/ AddDeadEndsStepOlder
  \/ AddDeadEndsDoneOlder
  \/ AddExtraWallsStep
  \/ AddExtraWallsDone

SpecMazeOlder == InitMazeOlder /\ [][NextMazeOlder]_vars

\* ------------------------------------------------------------------------
\* findPath and getCell on an arbitrary wall configuration, with arguments in
\* and around the grid
\* ------------------------------------------------------------------------
\* the pairs of horizontally or vertically adjacent cells
InnerPairs(w, h) ==
  {e \in Grid(w, h) \X Grid(w, h) :
     (e[2].x = e[1].x + 1 /\ e[2].y = e[1].y) \/ (e[2].y = e[1].y + 1 /\ e[2].x = e[1].x)}

\* the cells with the wall pairs in open removed; outer says whether the
\* flags on the rim of the grid are open as well
WallConfiguration(w, h, open, outer) ==
  [p \in Grid(w, h) |->
     [walls |->
        [top |-> IF p.y = 0 THEN ~outer ELSE <<Pos(p.x, p.y - 1), p>> \notin open,
         right |-> IF p.x = w - 1 THEN ~outer ELSE <<p, Pos(p.x + 1, p.y)>> \notin open,
         bottom |-> IF p.y = h - 1 THEN ~outer ELSE <<p, Pos(p.x, p.y + 1)>> \notin open,
         left |-> IF p.x = 0 THEN ~outer ELSE <<Pos(p.x - 1, p.y), p>> \notin open],
      visited |-> TRUE]]

Around(w, h) == {Pos(x, y) : x \in (-1)..w, y \in (-1)..h}

InitPath ==
  /\ width \in 1..MaxW
  /\ height \in 1..MaxH
  /\ width * height <= MaxPathCells
  /\ difficulty = 1
  /\ \E open \in SUBSET InnerPairs(width, height), outer \in BOOLEAN :
       cells = WallConfiguration(width, height, open, outer)
  /\ pc = "done"
  /\ stack = <<>>
  /\ i = 0
  /\ lastOpen = NoOpen
  /\ attempts = NoAttempts
  /\ qStart = NoPos
  /\ qEnd = NoPos
  /\ qResult = NoQuery
  /\ qCell = NoCell
  /\ NoGame

FindPathAround == FindPathCall(Around(width, height))

GetCellCall ==
  /\ pc = "done"
  /\ qStart = NoPos
  /\ \E x \in (-1)..width, y \in (-1)..height :
       /\ qStart' = Pos(x, y)
       /\ qCell' = getCell(cells, width, height, x, y)
  /\ qEnd' = NoPos
  /\ qResult' = NoQuery
  /\ UNCHANGED <<mazeVars, gameVars>>

NextPath ==
  \/ FindPathAround
  \/ GetCellCall
  \/ Return

SpecPath == InitPath /\ [][NextPath]_vars

\* ------------------------------------------------------------------------
\* ensureSolvable called on an arbitrary wall configuration, once or several times;
\* i counts the calls made on the maze present
\* ------------------------------------------------------------------------
EnsureSolvableCall ==
  /\ pc \in {"ensure", "done"}
  /\ stack = <<>>
  /\ i < MaxEnsureRuns
  /\ IF cornersJoined(cells, width, height)
     THEN /\ pc' = "done"
          /\ UNCHANGED <<cells, stack>>
     ELSE /\ cells' = [initializeCells(width, height) EXCEPT ![Pos(0, 0)].visited = TRUE]
          /\ stack' = <<Pos(0, 0)>>
          /\ pc' = "recarve"
  /\ i' = i + 1
  /\ lastOpen' = NoOpen
  /\ event' = [name |-> "ensure", stale |-> FALSE,
               acted |-> ~cornersJoined(cells, width, height)]
  /\ UNCHANGED <<width, height, difficulty, attempts, queryVars>>
  /\ UNCHANGED <<level, playerPosition, playerStartPosition, exitPosition, enemyPosition,
                 enemyActive, enemySpeed, gameOver, levelComplete, powerUps, activePowerUps,
                 enemyPath, enemyPathIndex, enemyMoveTimer, freezeTimeout, timers,
                 sinceFrame, sinceMove, sinceStart, freezeLeft, frozenActive, restarts, variant, twin>>

NextEnsure ==
  \/ EnsureSolvableCall
  \/ CarveStep
  \/ CarveDone

SpecEnsure == InitPath /\ [][NextEnsure]_vars

\* ------------------------------------------------------------------------
\* Game: level setup, input, pursuit, power-ups and timers
\* ------------------------------------------------------------------------
types == <<"speed", "invincibility", "reveal", "freeze">>

\* an empty Map: a time left of 0 stands for an absent key
NoEffects == [t \in {"speed", "invincibility", "reveal", "freeze"} |-> 0]

has(map, type) == map[type] > 0

Max(a, b) == IF a > b THEN a ELSE b

RECURSIVE Power(_, _)
Power(b, n) == IF n <= 0 THEN 1 ELSE b * Power(b, n - 1)

\* Math.max(50, Math.round(400 * Math.pow(0.8, level - 1)))
\* Math.round of the positive fraction num / den
Round(num, den) == (num \div den) + (IF 2 * (num % den) >= den THEN 1 ELSE 0)

enemySpeedFor_noFloor(lv) ==
  Round(baseSpeed * Power(SpeedNumerator, lv - 1), Power(SpeedDenominator, lv - 1))

\* once the interval of a level is the floor, 0.8 times its unrounded value is below the
\* floor as well, and the powers (too large for the integers here) are not evaluated
RECURSIVE enemySpeedFor(_)
enemySpeedFor(lv) ==
  IF lv > 1 /\ enemySpeedFor(lv - 1) = MinSpeed THEN MinSpeed
  ELSE LET num == baseSpeed * Power(SpeedNumerator, lv - 1)
           den == Power(SpeedDenominator, lv - 1)
       IN Max(MinSpeed, Round(num, den))

numPowerUps(lv) == Min(2 + (lv \div 2), 5)

\* setTimeout / clearTimeout; a handle is the least number not in use
NewHandle(ts) == CHOOSE n \in 1..(Cardinality(ts) + 1) : \A t \in ts : t.id # n

setTimeout(ts, kind, delay) ==
  ts \cup {[id |-> NewHandle(ts), kind |-> kind, remaining |-> delay, stale |-> FALSE]}

clearTimeout(ts, handle) == {t \in ts : t.id # handle}

\* the game as one record
Game ==
  [level |-> level, playerPosition |-> playerPosition,
   playerStartPosition |-> playerStartPosition, exitPosition |-> exitPosition,
   enemyPosition |-> enemyPosition, enemyActive |-> enemyActive, enemySpeed |-> enemySpeed,
   gameOver |-> gameOver, levelComplete |-> levelComplete, powerUps |-> powerUps,
   activePowerUps |-> activePowerUps, enemyPath |-> enemyPath,
   enemyPathIndex |-> enemyPathIndex, enemyMoveTimer |-> enemyMoveTimer,
   freezeTimeout |-> freezeTimeout, timers |-> timers, sinceMove |-> sinceMove,
   sinceStart |-> sinceStart, freezeLeft |-> freezeLeft, frozenActive |-> frozenActive]

Becomes(g) ==
  /\ level' = g.level
  /\ playerPosition' = g.playerPosition
  /\ playerStartPosition' = g.playerStartPosition
  /\ exitPosition' = g.exitPosition
  /\ enemyPosition' = g.enemyPosition
  /\ enemyActive' = g.enemyActive
  /\ enemySpeed' = g.enemySpeed
  /\ gameOver' = g.gameOver
  /\ levelComplete' = g.levelComplete
  /\ powerUps' = g.powerUps
  /\ activePowerUps' = g.activePowerUps
  /\ enemyPath' = g.enemyPath
  /\ enemyPathIndex' = g.enemyPathIndex
  /\ enemyMoveTimer' = g.enemyMoveTimer
  /\ freezeTimeout' = g.freezeTimeout
  /\ timers' = g.timers
  /\ sinceMove' = g.sinceMove
  /\ sinceStart' = g.sinceStart
  /\ freezeLeft' = g.freezeLeft
  /\ frozenActive' = g.frozenActive

\* the fields createInitialState sets; the private fields of Game are kept
createInitialState(g) ==
  [g EXCEPT !.level = 1, !.playerPosition = Pos(0, 0), !.playerStartPosition = Pos(0, 0),
            !.enemyPosition = Pos(0, 0), !.enemyActive = FALSE, !.enemySpeed = baseSpeed,
            !.gameOver = FALSE, !.levelComplete = FALSE, !.powerUps = <<>>,
            !.activePowerUps = NoEffects, !.sinceMove = playerSpeed]

gameOverCall(g) ==
  [g EXCEPT !.gameOver = TRUE,
            !.timers = IF g.freezeTimeout # 0 THEN clearTimeout(g.timers, g.freezeTimeout)
                       ELSE g.timers,
            !.freezeTimeout = 0,
            !.frozenActive = FALSE]

completeLevel(g) ==
  LET cleared == IF g.freezeTimeout # 0 THEN clearTimeout(g.timers, g.freezeTimeout)
                 ELSE g.timers
  IN [g EXCEPT !.levelComplete = TRUE,
               !.activePowerUps = NoEffects,
               !.freezeTimeout = 0,
               !.frozenActive = FALSE,
               !.level = g.level + 1,
               !.timers = setTimeout(cleared, "next", NextLevelDelay)]

activatePowerUp(g, powerUp) ==
  IF powerUp.type = "freeze"
  THEN LET cleared == IF g.freezeTimeout # 0 THEN clearTimeout(g.timers, g.freezeTimeout)
                      ELSE g.timers
       IN [g EXCEPT !.enemyActive = FALSE,
                    !.freezeTimeout = NewHandle(cleared),
                    !.timers = setTimeout(cleared, "freeze", powerUp.duration),
                    !.freezeLeft = powerUp.duration,
                    !.frozenActive = g.enemyActive \/ g.frozenActive]
  ELSE [g EXCEPT !.activePowerUps[powerUp.type] = powerUp.duration]

\* the first version of Game in game.ts: no freezeTimeout field
gameOverFirst(g) == [g EXCEPT !.gameOver = TRUE]

completeLevelFirst(g) ==
  [g EXCEPT !.levelComplete = TRUE,
            !.level = g.level + 1,
            !.timers = setTimeout(g.timers, "next", NextLevelDelay)]

activatePowerUpFirst(g, powerUp) ==
  IF powerUp.type = "freeze"
  THEN [g EXCEPT !.enemyActive = FALSE,
                 !.timers = setTimeout(g.timers, "freeze", powerUp.duration),
                 !.freezeLeft = powerUp.duration,
                 !.frozenActive = g.enemyActive \/ g.frozenActive]
  ELSE [g EXCEPT !.activePowerUps[powerUp.type] = powerUp.duration]

\* the call goes to the version that runs
CallGameOver(g) == IF variant = 1 THEN gameOverFirst(g) ELSE gameOverCall(g)

CallCompleteLevel(g) == IF variant = 1 THEN completeLevelFirst(g) ELSE completeLevel(g)

CallActivatePowerUp(g, powerUp) ==
  IF variant = 1 THEN activatePowerUpFirst(g, powerUp) ELSE activatePowerUp(g, powerUp)

RECURSIVE checkPowerUpCollection(_, _)
checkPowerUpCollection(g, n) ==
  IF n > Len(g.powerUps) THEN g
  ELSE LET powerUp == g.powerUps[n] IN
    IF /\ ~powerUp.collected
       /\ powerUp.position.x = g.playerPosition.x
       /\ powerUp.position.y = g.playerPosition.y
    THEN checkPowerUpCollection(
           CallActivatePowerUp([g EXCEPT !.powerUps[n].collected = TRUE], powerUp), n + 1)
    ELSE checkPowerUpCollection(g, n + 1)

\* variant: the wall flags of the cell are not looked at
canMove_noWalls(c, w, h, from, direction) ==
  LET newX == from.x + direction.x
      newY == from.y + direction.y
  IN newX >= 0 /\ newX < w /\ newY >= 0 /\ newY < h

canMove(c, w, h, from, direction) ==
  LET cell == c[from] IN
    IF direction.y = -1 /\ cell.walls.top THEN FALSE
    ELSE IF direction.y = 1 /\ cell.walls.bottom THEN FALSE
    ELSE IF direction.x = -1 /\ cell.walls.left THEN FALSE
    ELSE IF direction.x = 1 /\ cell.walls.right THEN FALSE
    ELSE LET newX == from.x + direction.x
             newY == from.y + direction.y
         IN newX >= 0 /\ newX < w /\ newY >= 0 /\ newY < h

movePlayer(g, direction) ==
  LET newX == g.playerPosition.x + direction.x
      newY == g.playerPosition.y + direction.y
  IN IF canMove(cells, width, height, g.playerPosition, direction)
     THEN LET g1 == checkPowerUpCollection([g EXCEPT !.playerPosition = Pos(newX, newY)], 1)
          IN [moved |-> TRUE,
              g |-> IF newX = g.exitPosition.x /\ newY = g.exitPosition.y
                    THEN CallCompleteLevel(g1) ELSE g1]
     ELSE [moved |-> FALSE, g |-> g]

\* the key table of processInput in its order; w, s, a, d repeat the four directions
moves == <<[key |-> "arrowup", x |-> 0, y |-> -1], [key |-> "arrowdown", x |-> 0, y |-> 1],
           [key |-> "arrowleft", x |-> -1, y |-> 0], [key |-> "arrowright", x |-> 1, y |-> 0]>>

Keys == {"arrowup", "arrowdown", "arrowleft", "arrowright"}

\* the sets of keys held during a frame: none, or one of the arrows
KeyDraws == {{}} \cup {{k} : k \in Keys}

RECURSIVE tryMoves(_, _, _)
tryMoves(g, keysPressed, n) ==
  IF n > Len(moves) THEN g
  ELSE IF moves[n].key \in keysPressed
       THEN LET r == movePlayer(g, moves[n])
            IN IF r.moved THEN [r.g EXCEPT !.sinceMove = 0]
               ELSE tryMoves(g, keysPressed, n + 1)
       ELSE tryMoves(g, keysPressed, n + 1)

processInput(g, keysPressed) ==
  IF g.gameOver \/ g.levelComplete THEN g
  ELSE LET speed == IF has(g.activePowerUps, "speed") THEN playerSpeed \div 2 ELSE playerSpeed
       IN IF g.sinceMove < speed THEN g ELSE tryMoves(g, keysPressed, 1)

\* variant: the index into the path is kept when the path is replaced
calculateEnemyPath_keepIndex(g) ==
  IF ~g.enemyActive THEN g
  ELSE [g EXCEPT !.enemyPath = findPath(cells, width, height,
                                        g.enemyPosition, g.playerPosition).path]

calculateEnemyPath(g) ==
  IF ~g.enemyActive THEN g
  ELSE [g EXCEPT !.enemyPath = findPath(cells, width, height,
                                        g.enemyPosition, g.playerPosition).path,
                 !.enemyPathIndex = 0]

updateEnemy_noCapture(g, deltaTime) ==
  IF ~g.enemyActive \/ has(g.activePowerUps, "freeze") THEN g
  ELSE LET timer == g.enemyMoveTimer + deltaTime IN
    IF timer >= g.enemySpeed
    THEN LET g1 == [g EXCEPT !.enemyMoveTimer = 0]
             g2 == IF g1.enemyPathIndex = 0 \/ g1.enemyPathIndex >= Len(g1.enemyPath) - 1
                   THEN calculateEnemyPath(g1) ELSE g1
         IN IF Len(g2.enemyPath) > 1 /\ g2.enemyPathIndex < Len(g2.enemyPath) - 1
            THEN LET g3 == [g2 EXCEPT !.enemyPathIndex = g2.enemyPathIndex + 1,
                                      !.enemyPosition = g2.enemyPath[g2.enemyPathIndex + 2]]
                 IN IF /\ ~has(g3.activePowerUps, "invincibility")
                       /\ g3.enemyPosition.x = g3.playerPosition.x
                       /\ g3.enemyPosition.y = g3.playerPosition.y
                    THEN g3 ELSE g3
            ELSE g2
    ELSE [g EXCEPT !.enemyMoveTimer = timer]

\* variant: the path is recalculated on every step tick
updateEnemy_recomputeEveryTick(g, deltaTime) ==
  IF ~g.enemyActive \/ has(g.activePowerUps, "freeze") THEN g
  ELSE LET timer == g.enemyMoveTimer + deltaTime IN
    IF timer >= g.enemySpeed
    THEN LET g1 == [g EXCEPT !.enemyMoveTimer = 0]
             g2 == calculateEnemyPath(g1)
         IN IF Len(g2.enemyPath) > 1 /\ g2.enemyPathIndex < Len(g2.enemyPath) - 1
            THEN LET g3 == [g2 EXCEPT !.enemyPathIndex = g2.enemyPathIndex + 1,
                                      !.enemyPosition = g2.enemyPath[g2.enemyPathIndex + 2]]
                 IN IF /\ ~has(g3.activePowerUps, "invincibility")
                       /\ g3.enemyPosition.x = g3.playerPosition.x
                       /\ g3.enemyPosition.y = g3.playerPosition.y
                    THEN CallGameOver(g3) ELSE g3
            ELSE g2
    ELSE [g EXCEPT !.enemyMoveTimer = timer]

\* variant: the player's speed power-up halves the adversary's move interval as well
updateEnemy_speedPowerUp(g, deltaTime) ==
  IF ~g.enemyActive \/ has(g.activePowerUps, "freeze") THEN g
  ELSE LET timer == g.enemyMoveTimer + deltaTime
           moveSpeed == IF has(g.activePowerUps, "speed") THEN g.enemySpeed \div 2
                        ELSE g.enemySpeed
       IN
    IF timer >= moveSpeed
    THEN LET g1 == [g EXCEPT !.enemyMoveTimer = 0]
             g2 == IF g1.enemyPathIndex = 0 \/ g1.enemyPathIndex >= Len(g1.enemyPath) - 1
                   THEN calculateEnemyPath(g1) ELSE g1
         IN IF Len(g2.enemyPath) > 1 /\ g2.enemyPathIndex < Len(g2.enemyPath) - 1
            THEN LET g3 == [g2 EXCEPT !.enemyPathIndex = g2.enemyPathIndex + 1,
                                      !.enemyPosition = g2.enemyPath[g2.enemyPathIndex + 2]]
                 IN IF /\ ~has(g3.activePowerUps, "invincibility")
                       /\ g3.enemyPosition.x = g3.playerPosition.x
                       /\ g3.enemyPosition.y = g3.playerPosition.y
                    THEN CallGameOver(g3) ELSE g3
            ELSE g2
    ELSE [g EXCEPT !.enemyMoveTimer = timer]

\* variant: the accumulator keeps what exceeds the move interval
updateEnemy_keepRemainder(g, deltaTime) ==
  IF ~g.enemyActive \/ has(g.activePowerUps, "freeze") THEN g
  ELSE LET timer == g.enemyMoveTimer + deltaTime IN
    IF timer >= g.enemySpeed
    THEN LET g1 == [g EXCEPT !.enemyMoveTimer = timer - g.enemySpeed]
             g2 == IF g1.enemyPathIndex = 0 \/ g1.enemyPathIndex >= Len(g1.enemyPath) - 1
                   THEN calculateEnemyPath(g1) ELSE g1
         IN IF Len(g2.enemyPath) > 1 /\ g2.enemyPathIndex < Len(g2.enemyPath) - 1
            THEN LET g3 == [g2 EXCEPT !.enemyPathIndex = g2.enemyPathIndex + 1,
                                      !.enemyPosition = g2.enemyPath[g2.enemyPathIndex + 2]]
                 IN IF /\ ~has(g3.activePowerUps, "invincibility")
                       /\ g3.enemyPosition.x = g3.playerPosition.x
                       /\ g3.enemyPosition.y = g3.playerPosition.y
                    THEN CallGameOver(g3) ELSE g3
            ELSE g2
    ELSE [g EXCEPT !.enemyMoveTimer = timer]

updateEnemy(g, deltaTime) ==
  IF ~g.enemyActive \/ has(g.activePowerUps, "freeze") THEN g
  ELSE LET timer == g.enemyMoveTimer + deltaTime IN
    IF timer >= g.enemySpeed
    THEN LET g1 == [g EXCEPT !.enemyMoveTimer = 0]
             g2 == IF g1.enemyPathIndex = 0 \/ g1.enemyPathIndex >= Len(g1.enemyPath) - 1
                   THEN calculateEnemyPath(g1) ELSE g1
         IN IF Len(g2.enemyPath) > 1 /\ g2.enemyPathIndex < Len(g2.enemyPath) - 1
            THEN LET g3 == [g2 EXCEPT !.enemyPathIndex = g2.enemyPathIndex + 1,
                                      !.enemyPosition = g2.enemyPath[g2.enemyPathIndex + 2]]
                 IN IF /\ ~has(g3.activePowerUps, "invincibility")
                       /\ g3.enemyPosition.x = g3.playerPosition.x
                       /\ g3.enemyPosition.y = g3.playerPosition.y
                    THEN CallGameOver(g3) ELSE g3
            ELSE g2
    ELSE [g EXCEPT !.enemyMoveTimer = timer]

updatePowerUps(g, deltaTime) ==
  [g EXCEPT !.activePowerUps =
     [t \in DOMAIN g.activePowerUps |->
        IF g.activePowerUps[t] - deltaTime <= 0 THEN 0 ELSE g.activePowerUps[t] - deltaTime]]

\* the body of update(currentTime)
update(g, deltaTime, keysPressed) ==
  IF ~g.gameOver /\ ~g.levelComplete
  THEN updatePowerUps(updateEnemy(processInput(g, keysPressed), deltaTime), deltaTime)
  ELSE g

\* the maze of the levels played: a 3 x 2 ring with the wall between (1,0) and (1,1) closed
GameMaze ==
  [w |-> 3, h |-> 2,
   open |-> {<<Pos(0, 0), Pos(1, 0)>>, <<Pos(1, 0), Pos(2, 0)>>, <<Pos(0, 0), Pos(0, 1)>>,
             <<Pos(2, 0), Pos(2, 1)>>, <<Pos(0, 1), Pos(1, 1)>>, <<Pos(1, 1), Pos(2, 1)>>}]

\* the outcomes of the corner shuffle played: shuffled[0] and shuffled[1]
CornerDraws(w, h) ==
  {<<corners(w, h)[1], corners(w, h)[4]>>, <<corners(w, h)[1], corners(w, h)[2]>>}

\* the power-up types drawn in the levels played; one level's power-ups share a type
TypeDraws == {"invincibility", "freeze"}

\* the first `need` cells in row order, from cell number n on, that are neither the
\* player's cell nor the exit
RECURSIVE FreeCells(_, _, _, _, _, _)
FreeCells(w, h, n, need, player, exit) ==
  IF n >= w * h \/ need <= 0 THEN <<>>
  ELSE LET p == Pos(n % w, n \div w)
       IN IF p = player \/ p = exit
          THEN FreeCells(w, h, n + 1, need, player, exit)
          ELSE <<p>> \o FreeCells(w, h, n + 1, need - 1, player, exit)

\* generatePowerUps: numPowerUps power-ups on distinct cells other than the
\* player's and the exit; the positions drawn are the first free cells in row order
generatePowerUps(lv, w, h, player, exit) ==
  LET n == numPowerUps(lv)
      free == FreeCells(w, h, 0, n, player, exit)
  IN {[k \in 1..n |-> [type |-> ty[k], position |-> free[k],
                       duration |-> PowerUpDuration, collected |-> FALSE]] :
        ty \in {[k \in 1..n |-> t] : t \in TypeDraws}}

MarkStale(ts) == {[t EXCEPT !.stale = TRUE] : t \in ts}

startLevel_fixedSpawn(g, shuffled, layout) ==
  [g EXCEPT !.playerPosition = shuffled[1],
            !.playerStartPosition = shuffled[1],
            !.exitPosition = shuffled[2],
            !.enemyPosition = Pos(0, 0),
            !.enemyActive = FALSE,
            !.levelComplete = FALSE,
            !.sinceMove = playerSpeed,
            !.activePowerUps = NoEffects,
            !.enemySpeed = enemySpeedFor(g.level),
            !.powerUps = layout,
            !.timers = setTimeout(MarkStale(g.timers), "arm", ArmDelay),
            !.sinceStart = 0,
            !.freezeLeft = 0,
            !.frozenActive = FALSE]

startLevel(g, shuffled, layout) ==
  [g EXCEPT !.playerPosition = shuffled[1],
            !.playerStartPosition = shuffled[1],
            !.exitPosition = shuffled[2],
            !.enemyPosition = shuffled[1],
            !.enemyActive = FALSE,
            !.levelComplete = FALSE,
            !.sinceMove = playerSpeed,
            !.activePowerUps = NoEffects,
            !.enemySpeed = enemySpeedFor(g.level),
            !.powerUps = layout,
            !.timers = setTimeout(MarkStale(g.timers), "arm", ArmDelay),
            !.sinceStart = 0,
            !.freezeLeft = 0,
            !.frozenActive = FALSE]

enemySpeedFirst(lv) == Max(MinSpeed, baseSpeedFirst - (lv - 1) * SpeedStepFirst)

\* startLevel of the first version: activePowerUps is not cleared
startLevelFirst(g, shuffled, layout) ==
  [g EXCEPT !.playerPosition = shuffled[1],
            !.playerStartPosition = shuffled[1],
            !.exitPosition = shuffled[2],
            !.enemyPosition = shuffled[1],
            !.enemyActive = FALSE,
            !.levelComplete = FALSE,
            !.sinceMove = playerSpeed,
            !.enemySpeed = enemySpeedFirst(g.level),
            !.powerUps = layout,
            !.timers = setTimeout(MarkStale(g.timers), "arm", ArmDelay),
            !.sinceStart = 0,
            !.freezeLeft = 0,
            !.frozenActive = FALSE]

CallStartLevel(g, shuffled, layout) ==
  IF variant = 1 THEN startLevelFirst(g, shuffled, layout) ELSE startLevel(g, shuffled, layout)

\* startLevel with its random draws
StartLevelFrom(g) ==
  \E shuffled \in CornerDraws(width, height) :
    \E layout \in generatePowerUps(g.level, width, height, shuffled[1], shuffled[2]) :
      Becomes(CallStartLevel(g, shuffled, layout))

Blank ==
  [level |-> 1, playerPosition |-> Pos(0, 0), playerStartPosition |-> Pos(0, 0),
   exitPosition |-> Pos(0, 0), enemyPosition |-> Pos(0, 0), enemyActive |-> FALSE,
   enemySpeed |-> baseSpeed, gameOver |-> FALSE, levelComplete |-> FALSE, powerUps |-> <<>>,
   activePowerUps |-> NoEffects, enemyPath |-> <<>>, enemyPathIndex |-> 0,
   enemyMoveTimer |-> 0, freezeTimeout |-> 0, timers |-> {}, sinceMove |-> playerSpeed,
   sinceStart |-> 0, freezeLeft |-> 0, frozenActive |-> FALSE]

\* new Game(canvas): createInitialState and the first startLevel
GameConstructed(v) ==
  /\ variant = v
  /\ twin = NoTwin
  /\ width = GameMaze.w
  /\ height = GameMaze.h
  /\ difficulty = 1
  /\ cells = WallConfiguration(GameMaze.w, GameMaze.h, GameMaze.open, FALSE)
  /\ pc = "game"
  /\ stack = <<>>
  /\ i = 0
  /\ lastOpen = NoOpen
  /\ attempts = NoAttempts
  /\ qStart = NoPos
  /\ qEnd = NoPos
  /\ qResult = NoQuery
  /\ qCell = NoCell
  /\ \E shuffled \in CornerDraws(width, height) :
       \E layout \in generatePowerUps(1, width, height, shuffled[1], shuffled[2]) :
         LET g == CallStartLevel(Blank, shuffled, layout) IN
           /\ level = g.level
           /\ playerPosition = g.playerPosition
           /\ playerStartPosition = g.playerStartPosition
           /\ exitPosition = g.exitPosition
           /\ enemyPosition = g.enemyPosition
           /\ enemyActive = g.enemyActive
           /\ enemySpeed = g.enemySpeed
           /\ gameOver = g.gameOver
           /\ levelComplete = g.levelComplete
           /\ powerUps = g.powerUps
           /\ activePowerUps = g.activePowerUps
           /\ enemyPath = g.enemyPath
           /\ enemyPathIndex = g.enemyPathIndex
           /\ enemyMoveTimer = g.enemyMoveTimer
           /\ freezeTimeout = g.freezeTimeout
           /\ timers = g.timers
           /\ sinceMove = g.sinceMove
           /\ sinceStart = g.sinceStart
           /\ freezeLeft = g.freezeLeft
           /\ frozenActive = g.frozenActive
  /\ sinceFrame = 0
  /\ event = NoEvent
  /\ restarts = 0

InitGame == GameConstructed(2)

InitGameFirst == GameConstructed(1)

Due(t) == t.remaining <= 0

\* the order in which callbacks with one deadline were scheduled: startLevel schedules
\* its callback before a power-up of the level is collected, and completeLevel schedules
\* the last callback of a level
Rank(kind) == IF kind = "arm" THEN 1 ELSE IF kind = "freeze" THEN 2 ELSE 3

\* the event loop runs the due callback with the earliest deadline; of two with the same
\* deadline it runs the one scheduled first
Runs(t) ==
  /\ Due(t)
  /\ \A u \in timers \ {t} :
       \/ t.remaining < u.remaining
       \/ t.remaining = u.remaining /\ Rank(t.kind) <= Rank(u.kind)

\* the clock advances by one tick; a due callback runs before it advances further
TimePasses ==
  /\ \A t \in timers : ~Due(t)
  /\ sinceFrame < MaxFrameGap * TickMs
  /\ timers' = {[t EXCEPT !.remaining = t.remaining - TickMs] : t \in timers}
  /\ sinceFrame' = sinceFrame + TickMs
  /\ sinceMove' = Min(sinceMove + TickMs, playerSpeed)
  /\ sinceStart' = Min(sinceStart + TickMs, ArmDelay)
  /\ freezeLeft' = Max(freezeLeft - TickMs, 0)
  /\ event' = [name |-> "time", stale |-> FALSE, acted |-> FALSE]
  /\ UNCHANGED <<level, playerPosition, playerStartPosition, exitPosition, enemyPosition,
                 enemyActive, enemySpeed, gameOver, levelComplete, powerUps, activePowerUps,
                 enemyPath, enemyPathIndex, enemyMoveTimer, freezeTimeout, frozenActive>>
  /\ UNCHANGED <<restarts, variant, twin, mazeVars, queryVars>>

\* one animation frame: update(currentTime) with the keys held at that moment
Frame ==
  /\ sinceFrame > 0
  /\ \E keysPressed \in KeyDraws :
       LET g == update(Game, sinceFrame, keysPressed) IN
         /\ g.level <= MaxLevel
         /\ Becomes(g)
  /\ sinceFrame' = 0
  /\ event' = [name |-> "update", stale |-> FALSE, acted |-> FALSE]
  /\ UNCHANGED <<restarts, variant, twin, mazeVars, queryVars>>

\* the callback startLevel schedules: "Start enemy after 5 seconds"
ArmFires ==
  \E t \in timers :
    /\ t.kind = "arm" /\ Runs(t)
    /\ LET g0 == [Game EXCEPT !.timers = timers \ {t}] IN
         IF ~gameOver /\ ~levelComplete
         THEN Becomes(calculateEnemyPath([g0 EXCEPT !.enemyActive = TRUE]))
         ELSE Becomes(g0)
    /\ event' = [name |-> "arm", stale |-> t.stale, acted |-> ~gameOver /\ ~levelComplete]
    /\ UNCHANGED <<sinceFrame, restarts, variant, twin, mazeVars, queryVars>>

\* the test of the freeze callback: the first version looks at gameOver alone
FreezeGuard == IF variant = 1 THEN ~gameOver ELSE ~gameOver /\ ~levelComplete

\* the callback activatePowerUp schedules for a freeze
FreezeExpires ==
  \E t \in timers :
    /\ t.kind = "freeze" /\ Runs(t)
    /\ LET g0 == [Game EXCEPT !.timers = timers \ {t}, !.freezeTimeout = 0,
                               !.frozenActive = FALSE] IN
         IF FreezeGuard
         THEN Becomes([g0 EXCEPT !.enemyActive = TRUE])
         ELSE Becomes(g0)
    /\ event' = [name |-> "freeze", stale |-> t.stale, acted |-> FreezeGuard]
    /\ UNCHANGED <<sinceFrame, restarts, variant, twin, mazeVars, queryVars>>

\* the callback completeLevel schedules: startLevel of the next level
NextLevelStarts ==
  \E t \in timers :
    /\ t.kind = "next" /\ Runs(t)
    /\ StartLevelFrom([Game EXCEPT !.timers = timers \ {t}])
    /\ event' = [name |-> "next", stale |-> t.stale, acted |-> TRUE]
    /\ UNCHANGED <<sinceFrame, restarts, variant, twin, mazeVars, queryVars>>

\* Enter pressed on the game-over screen
Restart ==
  /\ gameOver
  /\ restarts < MaxRestarts
  /\ StartLevelFrom(createInitialState(Game))
  /\ event' = [name |-> "restart", stale |-> FALSE, acted |-> TRUE]
  /\ restarts' = restarts + 1
  /\ UNCHANGED <<sinceFrame, variant, twin, mazeVars, queryVars>>

NextGame ==
  \/ TimePasses
  \/ Frame
  \/ ArmFires
  \/ FreezeExpires
  \/ NextLevelStarts
  \/ Restart

SpecGame == InitGame /\ [][NextGame]_vars

\* the first version, played without its restart button
NextGameFirst ==
  \/ TimePasses
  \/ Frame
  \/ ArmFires
  \/ FreezeExpires
  \/ NextLevelStarts

SpecGameFirst == InitGameFirst /\ [][NextGameFirst]_vars

\* ------------------------------------------------------------------------
\* The second version with frames closer together than the adversary's move interval
\* while the adversary is active, so that enemyMoveTimer holds part of an interval; every
\* callback still runs at its deadline, and each tick of the clock is followed by a frame
\* ------------------------------------------------------------------------
FrameGaps == {PursuitTickMs, TickMs}

TimePassesFine ==
  /\ sinceFrame = 0
  /\ \E d \in FrameGaps :
       /\ \A t \in timers : t.remaining >= d
       /\ d < TickMs => enemyActive /\ ~gameOver
       /\ timers' = {[t EXCEPT !.remaining = t.remaining - d] : t \in timers}
       /\ sinceFrame' = d
       /\ sinceMove' = Min(sinceMove + d, playerSpeed)
       /\ sinceStart' = Min(sinceStart + d, ArmDelay)
       /\ freezeLeft' = Max(freezeLeft - d, 0)
  /\ event' = [name |-> "time", stale |-> FALSE, acted |-> FALSE]
  /\ UNCHANGED <<level, playerPosition, playerStartPosition, exitPosition, enemyPosition,
                 enemyActive, enemySpeed, gameOver, levelComplete, powerUps, activePowerUps,
                 enemyPath, enemyPathIndex, enemyMoveTimer, freezeTimeout, frozenActive>>
  /\ UNCHANGED <<restarts, variant, twin, mazeVars, queryVars>>

\* a callback that is due runs before the next frame
FrameFine ==
  /\ \A t \in timers : ~Due(t)
  /\ Frame

NextGameFine ==
  \/ TimePassesFine
  \/ FrameFine
  \/ ArmFires
  \/ FreezeExpires
  \/ NextLevelStarts

SpecGameFine == InitGame /\ [][NextGameFine]_vars

\* ------------------------------------------------------------------------
\* Pursuit on its own: updateEnemy on an arbitrary maze, from the moment the adversary is
\* armed, with the target walking through open walls.  A second Game (twin) on the same
\* maze, with the same spawn, move interval and target, is fed the same deltaTime values;
\* it differs in what pursuit is not given: the level number and the player's speed
\* power-up.
\* ------------------------------------------------------------------------
\* the deltaTime values of the frames
PursuitDeltas == {PursuitTickMs, 2 * PursuitTickMs, LongFrame * PursuitTickMs}

\* the state of a Game whose arm callback has just run
Armed(spawn, target) ==
  calculateEnemyPath([Blank EXCEPT !.playerPosition = target,
                                   !.playerStartPosition = spawn,
                                   !.enemyPosition = spawn,
                                   !.enemyActive = TRUE,
                                   !.sinceStart = ArmDelay])

InitPursuit ==
  /\ width \in 1..MaxW
  /\ height \in 1..MaxH
  /\ width * height <= MaxPursuitCells
  /\ difficulty = 1
  /\ \E open \in SUBSET InnerPairs(width, height) :
       cells = WallConfiguration(width, height, open, FALSE)
  /\ pc = "pursuit"
  /\ stack = <<>>
  /\ i = 0
  /\ lastOpen = NoOpen
  /\ attempts = NoAttempts
  /\ qStart = NoPos
  /\ qEnd = NoPos
  /\ qResult = NoQuery
  /\ qCell = NoCell
  /\ variant = 2
  /\ restarts = 0
  /\ sinceFrame = 0
  /\ event = NoEvent
  /\ \E spawn \in Grid(width, height), target \in Grid(width, height) :
       LET g == Armed(spawn, target) IN
         /\ level = g.level
         /\ playerPosition = g.playerPosition
         /\ playerStartPosition = g.playerStartPosition
         /\ exitPosition = g.exitPosition
         /\ enemyPosition = g.enemyPosition
         /\ enemyActive = g.enemyActive
         /\ enemySpeed = g.enemySpeed
         /\ gameOver = g.gameOver
         /\ levelComplete = g.levelComplete
         /\ powerUps = g.powerUps
         /\ activePowerUps = g.activePowerUps
         /\ enemyPath = g.enemyPath
         /\ enemyPathIndex = g.enemyPathIndex
         /\ enemyMoveTimer = g.enemyMoveTimer
         /\ freezeTimeout = g.freezeTimeout
         /\ timers = g.timers
         /\ sinceMove = g.sinceMove
         /\ sinceStart = g.sinceStart
         /\ freezeLeft = g.freezeLeft
         /\ frozenActive = g.frozenActive
         /\ \E lv \in 1..MaxLevel, speedLeft \in {0, PowerUpDuration} :
              twin = [g EXCEPT !.level = lv, !.activePowerUps["speed"] = speedLeft]

\* a frame of both runs: update calls updateEnemy(deltaTime) while the game goes on
PursuitTick ==
  /\ pc = "pursuit"
  /\ ~gameOver /\ ~levelComplete
  /\ \E deltaTime \in PursuitDeltas :
       /\ Becomes(updateEnemy(Game, deltaTime))
       /\ twin' = IF ~twin.gameOver /\ ~twin.levelComplete
                  THEN updateEnemy(twin, deltaTime) ELSE twin
       /\ sinceFrame' = deltaTime
  /\ event' = [name |-> "update", stale |-> FALSE, acted |-> FALSE]
  /\ UNCHANGED <<restarts, variant, mazeVars, queryVars>>

\* the target takes a step: the assignment of movePlayer after canMove, in both runs
TargetMoves ==
  /\ pc = "pursuit"
  /\ ~gameOver /\ ~levelComplete
  /\ \E n \in 1..Len(moves) :
       /\ canMove(cells, width, height, playerPosition, moves[n])
       /\ playerPosition' = Pos(playerPosition.x + moves[n].x, playerPosition.y + moves[n].y)
       /\ twin' = [twin EXCEPT !.playerPosition =
                     Pos(playerPosition.x + moves[n].x, playerPosition.y + moves[n].y)]
  /\ event' = [name |-> "move", stale |-> FALSE, acted |-> TRUE]
  /\ UNCHANGED <<level, playerStartPosition, exitPosition, enemyPosition, enemyActive,
                 enemySpeed, gameOver, levelComplete, powerUps, activePowerUps, enemyPath,
                 enemyPathIndex, enemyMoveTimer, freezeTimeout, timers, sinceFrame, sinceMove,
                 sinceStart, freezeLeft, frozenActive, restarts, variant, mazeVars, queryVars>>

NextPursuit ==
  \/ PursuitTick
  \/ TargetMoves

SpecPursuit == InitPursuit /\ [][NextPursuit]_vars

\* ------------------------------------------------------------------------
\* Level set-up: what startLevel computes from the level number, level after level
\* ------------------------------------------------------------------------
\* the cumulative increases of startLevel for the levels k .. lv - 1
RECURSIVE sizeIncrease(_, _)
sizeIncrease(lv, k) ==
  IF k >= lv THEN [width |-> 0, height |-> 0]
  ELSE LET rest == sizeIncrease(lv, k + 1)
           randomChoice == (k * 7 + 13) % 2
       IN IF randomChoice = 0
          THEN [width |-> rest.width + 2, height |-> rest.height + 3]
          ELSE [width |-> rest.width + 3, height |-> rest.height + 2]

mazeWidthFor_uncapped(lv) == baseSize + sizeIncrease(lv, 1).width

mazeWidthFor(lv) == Min(baseSize + sizeIncrease(lv, 1).width, SizeCap)

mazeHeightFor(lv) == Min(baseSize + sizeIncrease(lv, 1).height, SizeCap)

\* [...corners].sort(() => Math.random() - 0.5): some order of the four corners
Shuffles(arr) ==
  {[k \in 1..Len(arr) |-> arr[f[k]]] :
     f \in {g \in [1..Len(arr) -> 1..Len(arr)] : \A a, b \in 1..Len(arr) : a # b => g[a] # g[b]}}

\* new Game(canvas) up to its first startLevel; the maze itself is not built here
InitSetup ==
  /\ variant = 2
  /\ twin = NoTwin
  /\ width = 0
  /\ height = 0
  /\ difficulty = 0
  /\ cells = <<>>
  /\ pc = "setup"
  /\ stack = <<>>
  /\ i = 0
  /\ lastOpen = NoOpen
  /\ attempts = NoAttempts
  /\ qStart = NoPos
  /\ qEnd = NoPos
  /\ qResult = NoQuery
  /\ qCell = NoCell
  /\ level = Blank.level
  /\ playerPosition = Blank.playerPosition
  /\ playerStartPosition = Blank.playerStartPosition
  /\ exitPosition = Blank.exitPosition
  /\ enemyPosition = Blank.enemyPosition
  /\ enemyActive = Blank.enemyActive
  /\ enemySpeed = Blank.enemySpeed
  /\ gameOver = Blank.gameOver
  /\ levelComplete = Blank.levelComplete
  /\ powerUps = Blank.powerUps
  /\ activePowerUps = Blank.activePowerUps
  /\ enemyPath = Blank.enemyPath
  /\ enemyPathIndex = Blank.enemyPathIndex
  /\ enemyMoveTimer = Blank.enemyMoveTimer
  /\ freezeTimeout = Blank.freezeTimeout
  /\ timers = Blank.timers
  /\ sinceMove = Blank.sinceMove
  /\ sinceStart = Blank.sinceStart
  /\ freezeLeft = Blank.freezeLeft
  /\ frozenActive = Blank.frozenActive
  /\ sinceFrame = 0
  /\ event = NoEvent
  /\ restarts = 0

\* startLevel: the maze size, the call generate(level), the corners, the spawn, the speed,
\* the power-ups and the arm timer
StartLevelSetup ==
  /\ pc = "setup"
  /\ width' = mazeWidthFor(level)
  /\ height' = mazeHeightFor(level)
  /\ difficulty' = level
  /\ attempts' = [loops |-> loopCount(level), deadEnds |-> deadEndCount(level)]
  /\ \E shuffled \in Shuffles(corners(mazeWidthFor(level), mazeHeightFor(level))) :
       \E layout \in generatePowerUps(level, mazeWidthFor(level), mazeHeightFor(level),
                                      shuffled[1], shuffled[2]) :
         Becomes(startLevel([Game EXCEPT !.timers = {t \in timers : t.kind # "next"}],
                            shuffled, layout))
  /\ pc' = "ready"
  /\ event' = [name |-> "next", stale |-> FALSE, acted |-> TRUE]
  /\ UNCHANGED <<cells, stack, i, lastOpen, sinceFrame, restarts, variant, twin, queryVars>>

\* the player reaches the exit: completeLevel
ExitReached ==
  /\ pc = "ready"
  /\ level < MaxSetupLevel
  /\ Becomes(completeLevel(Game))
  /\ pc' = "setup"
  /\ event' = [name |-> "update", stale |-> FALSE, acted |-> FALSE]
  /\ UNCHANGED <<width, height, difficulty, cells, stack, i, lastOpen, attempts,
                 sinceFrame, restarts, variant, twin, queryVars>>

NextSetup ==
  \/ StartLevelSetup
  \/ ExitReached

SpecSetup == InitSetup /\ [][NextSetup]_vars

\* ------------------------------------------------------------------------
\* generatePowerUps, one iteration of its for loop at a time, with every outcome of the
\* position draws; the game's grids have 100 cells or more, the grids here have enough
\* free cells for the do-while loop to end
\* ------------------------------------------------------------------------
\* variant: a cell that holds a power-up can be drawn again
positionRejected_ignoresTaken(ps, position, player, exit) ==
  \/ position.x = player.x /\ position.y = player.y
  \/ position.x = exit.x /\ position.y = exit.y

\* the condition of the do-while loop: the draw is made again
positionRejected(ps, position, player, exit) ==
  \/ position.x = player.x /\ position.y = player.y
  \/ position.x = exit.x /\ position.y = exit.y
  \/ \E k \in 1..Len(ps) : ps[k].position.x = position.x /\ ps[k].position.y = position.y

\* this.state.powerUps.push({type, position, duration: 5000, collected: false})
pushPowerUp(ps, type, position) ==
  Append(ps, [type |-> type, position |-> position,
              duration |-> PowerUpDuration, collected |-> FALSE])

\* startLevel has set the level's grid size, player position and exit and is about to
\* call generatePowerUps
InitPowerUps ==
  /\ variant = 2
  /\ twin = NoTwin
  /\ width \in 2..MaxPowerUpCells
  /\ height \in 2..MaxPowerUpCells
  /\ width * height = MaxPowerUpCells
  /\ level \in 1..MaxPowerUpLevel
  /\ difficulty = level
  /\ cells = <<>>
  /\ pc = "startLevel"
  /\ stack = <<>>
  /\ i = 0
  /\ lastOpen = NoOpen
  /\ attempts = NoAttempts
  /\ qStart = NoPos
  /\ qEnd = NoPos
  /\ qResult = NoQuery
  /\ qCell = NoCell
  /\ \E shuffled \in CornerDraws(width, height) :
       /\ playerPosition = shuffled[1]
       /\ playerStartPosition = shuffled[1]
       /\ exitPosition = shuffled[2]
       /\ enemyPosition = shuffled[1]
  /\ enemyActive = FALSE
  /\ enemySpeed = enemySpeedFor(level)
  /\ gameOver = FALSE
  /\ levelComplete = FALSE
  /\ powerUps = <<>>
  /\ activePowerUps = NoEffects
  /\ enemyPath = <<>>
  /\ enemyPathIndex = 0
  /\ enemyMoveTimer = 0
  /\ freezeTimeout = 0
  /\ timers = {}
  /\ sinceMove = playerSpeed
  /\ sinceStart = 0
  /\ freezeLeft = 0
  /\ frozenActive = FALSE
  /\ sinceFrame = 0
  /\ event = NoEvent
  /\ restarts = 0

\* the call: this.state.powerUps = [] and the loop counter at 0
GeneratePowerUpsCall ==
  /\ pc = "startLevel"
  /\ powerUps' = <<>>
  /\ i' = 0
  /\ pc' = "powerUps"
  /\ UNCHANGED <<width, height, difficulty, cells, stack, lastOpen, attempts, queryVars>>
  /\ UNCHANGED <<level, playerPosition, playerStartPosition, exitPosition, enemyPosition,
                 enemyActive, enemySpeed, gameOver, levelComplete, activePowerUps,
                 enemyPath, enemyPathIndex, enemyMoveTimer, freezeTimeout, timers,
                 sinceFrame, sinceMove, sinceStart, freezeLeft, frozenActive, event,
                 restarts, variant, twin>>

\* one iteration of the for loop: the do-while loop ends with the first draw that is not
\* rejected, then the power-up is pushed
GeneratePowerUpsStep ==
  /\ pc = "powerUps"
  /\ i < numPowerUps(level)
  /\ \E x \in RandomIndex(width), y \in RandomIndex(height), type \in TypeDraws :
       /\ ~positionRejected(powerUps, Pos(x, y), playerPosition, exitPosition)
       /\ powerUps' = pushPowerUp(powerUps, type, Pos(x, y))
  /\ i' = i + 1
  /\ UNCHANGED <<width, height, difficulty, cells, pc, stack, lastOpen, attempts, queryVars>>
  /\ UNCHANGED <<level, playerPosition, playerStartPosition, exitPosition, enemyPosition,
                 enemyActive, enemySpeed, gameOver, levelComplete, activePowerUps,
                 enemyPath, enemyPathIndex, enemyMoveTimer, freezeTimeout, timers,
                 sinceFrame, sinceMove, sinceStart, freezeLeft, frozenActive, event,
                 restarts, variant, twin>>

\* the for loop has ended and generatePowerUps returns
GeneratePowerUpsDone ==
  /\ pc = "powerUps"
  /\ i >= numPowerUps(level)
  /\ pc' = "placed"
  /\ UNCHANGED <<width, height, difficulty, cells, stack, i, lastOpen, attempts, queryVars,
                 gameVars>>

NextPowerUps ==
  \/ GeneratePowerUpsCall
  \/ GeneratePowerUpsStep
  \/ GeneratePowerUpsDone

SpecPowerUps == InitPowerUps /\ [][NextPowerUps]_vars

\* ------------------------------------------------------------------------
\* Reference notions of the open-wall graph (set based, independent of findPath)
\* ------------------------------------------------------------------------
Adjacent(a, b) ==
  \/ a.x = b.x /\ (a.y = b.y + 1 \/ b.y = a.y + 1)
  \/ a.y = b.y /\ (a.x = b.x + 1 \/ b.x = a.x + 1)

\* the wall of a that faces its neighbour b
Facing(a, b) ==
  IF b.y = a.y - 1 THEN "top"
  ELSE IF b.x = a.x + 1 THEN "right"
  ELSE IF b.y = a.y + 1 THEN "bottom"
  ELSE "left"

\* a step from a to b through a's open wall
OpenStep(c, w, h, a, b) ==
  /\ a \in Grid(w, h) /\ b \in Grid(w, h)
  /\ Adjacent(a, b)
  /\ ~c[a].walls[Facing(a, b)]

RECURSIVE DistanceFrom(_, _, _, _, _, _, _)
DistanceFrom(c, w, h, frontier, seen, target, d) ==
  IF target \in frontier THEN d
  ELSE IF frontier = {} THEN -1
  ELSE LET next == {b \in Grid(w, h) \ seen : \E a \in frontier : OpenStep(c, w, h, a, b)}
       IN DistanceFrom(c, w, h, next, seen \cup next, target, d + 1)

\* number of steps of a shortest route, -1 when there is none
Distance(c, w, h, a, b) == DistanceFrom(c, w, h, {a}, {a}, b, 0)

Joined(c, w, h, a, b) == Distance(c, w, h, a, b) >= 0

FullyConnected(c, w, h) == \A a \in Grid(w, h) : Joined(c, w, h, Pos(0, 0), a) /\ Joined(c, w, h, a, Pos(0, 0))

OpenPairs(c, w, h) ==
  {e \in Grid(w, h) \X Grid(w, h) :
     /\ (e[2].x = e[1].x + 1 /\ e[2].y = e[1].y) \/ (e[2].y = e[1].y + 1 /\ e[2].x = e[1].x)
     /\ ~c[e[1]].walls[Facing(e[1], e[2])]}

WallSymmetry(c, w, h) ==
  \A a \in Grid(w, h), b \in Grid(w, h) :
    Adjacent(a, b) => (c[a].walls[Facing(a, b)] = c[b].walls[Facing(b, a)])

Asked == qStart # NoPos

\* ------------------------------------------------------------------------
\* Properties
\* ------------------------------------------------------------------------

\* C1: the maze generate returns is fully connected through open walls: every
\* cell, so every corner, is joined to every other by a route.
C1_GeneratedMazeConnected ==
  pc = "done" =>
    /\ FullyConnected(cells, width, height)
    /\ \A a \in 1..4, b \in 1..4 :
         Joined(cells, width, height, corners(width, height)[a], corners(width, height)[b])

C1_Witness ==
  /\ pc = "done"
  /\ width >= 2 /\ height >= 2
  /\ Cardinality(OpenPairs(cells, width, height)) > width * height - 1

\* C2: after every generation step the wall flags of two adjacent cells that
\* face each other are equal.
C2_WallSymmetry == WallSymmetry(cells, width, height)

C2_Witness ==
  /\ pc = "deadends"
  /\ lastOpen.step = "deadend"
  /\ ~cells[lastOpen.from].walls[Facing(lastOpen.from, lastOpen.to)]
  /\ \E p \in Grid(width, height) : \E q \in Grid(width, height) :
       Adjacent(p, q) /\ cells[p].walls[Facing(p, q)]

\* C3: on a generated maze findPath(a, b) is non-empty for in-bounds a and b,
\* and its number of steps is the shortest open-wall distance from a to b.
C3_ShortestPath ==
  (pc = "done" /\ Asked) =>
    /\ ~qResult.threw
    /\ Len(qResult.path) >= 1
    /\ Len(qResult.path) - 1 = Distance(cells, width, height, qStart, qEnd)

C3_Witness ==
  /\ pc = "done" /\ Asked
  /\ Len(qResult.path) >= 4
  /\ Cardinality(OpenPairs(cells, width, height)) > width * height - 1

\* C4: a non-empty path starts at start, ends at end, steps only between
\* adjacent cells through an open wall, and holds no cell twice.
C4_PathWellFormed ==
  (Asked /\ Len(qResult.path) > 0) =>
    LET path == qResult.path IN
      /\ path[1] = qStart
      /\ path[Len(path)] = qEnd
      /\ \A k \in 1..(Len(path) - 1) : OpenStep(cells, width, height, path[k], path[k + 1])
      /\ \A k \in 1..Len(path), m \in 1..Len(path) : path[k] = path[m] => k = m

C4_Witness ==
  /\ pc = "done" /\ Asked
  /\ Len(qResult.path) >= 3
  /\ qResult.path[1] = qStart
  /\ qResult.path[1].x # qResult.path[3].x
  /\ qResult.path[1].y # qResult.path[3].y

\* C5: findPath(a, a) is the one-element path [a], for every position a.
C5_SamePosition ==
  (Asked /\ qCell = NoCell /\ qStart = qEnd) =>
    (~qResult.threw /\ qResult.path = <<qStart>>)

C5_Witness ==
  /\ Asked /\ qCell = NoCell /\ qStart = qEnd
  /\ qStart \in Grid(width, height)
  /\ countOpenings(cells[qStart]) >= 2
  /\ qResult.path = <<qStart>>

\* C6: for in-bounds start and end with no open-wall route between them, in
\* any wall configuration, findPath returns the empty sequence.
C6_NoRouteEmpty ==
  (/\ Asked /\ qCell = NoCell
   /\ qStart \in Grid(width, height) /\ qEnd \in Grid(width, height)
   /\ ~Joined(cells, width, height, qStart, qEnd)) =>
    (~qResult.threw /\ qResult.path = <<>>)

C6_Witness ==
  /\ Asked /\ qCell = NoCell
  /\ qStart \in Grid(width, height) /\ qEnd \in Grid(width, height)
  /\ ~Joined(cells, width, height, qStart, qEnd)
  /\ Adjacent(qStart, qEnd)
  /\ countOpenings(cells[qStart]) >= 2
  /\ qResult.path = <<>>

\* C7: findPath and getCell given coordinates outside the grid (as start, as
\* end, or both) return an empty path / null and never throw.
C7_OutOfBoundsEmpty ==
  (Asked /\ (qStart \notin Grid(width, height) \/
             (qCell = NoCell /\ qEnd \notin Grid(width, height)))) =>
    IF qCell = NoCell THEN ~qResult.threw /\ qResult.path = <<>>
    ELSE qCell = Null


\* C8: in every level the adversary is dormant (enemyActive false, position equal to its
\* spawn position) until 5000 ms have elapsed since that level's startLevel
C8_DormantUntilArmDelay ==
  (pc = "game" /\ sinceStart < ArmDelay) =>
    (~enemyActive /\ enemyPosition = playerStartPosition)

\* C9: the callback scheduled by an earlier startLevel never sets enemyActive or recomputes
\* the path once a later startLevel has run
C9_StaleArmCancelled ==
  ~(event.name = "arm" /\ event.stale /\ event.acted)

\* C10: during the D ms after a freeze power-up is collected the adversary does not step
\* and its step accumulator does not grow, whatever other timers fire in that window
C10_FrozenForDuration ==
  [][(freezeLeft > 0 /\ event'.name \notin {"next", "restart"}) =>
       (enemyPosition' = enemyPosition /\ enemyMoveTimer' <= enemyMoveTimer)]_vars


\* C11: a freeze applied while the adversary is active leaves enemyPath, enemyPathIndex,
\* enemyPosition and enemyMoveTimer unchanged until the freeze-expiry callback has run
C11_FreezeKeepsPursuitState ==
  [][(frozenActive /\ freezeTimeout # 0 /\ event'.name \notin {"next", "restart"}) =>
       (/\ enemyPath' = enemyPath
        /\ enemyPathIndex' = enemyPathIndex
        /\ enemyPosition' = enemyPosition
        /\ enemyMoveTimer' = enemyMoveTimer)]_vars


\* C12: a freeze-expiry callback never sets enemyActive to true after the level in which
\* the freeze was collected has ended, also not after the next startLevel has run
C12_NoResumeAfterLevelEnd ==
  ~(event.name = "freeze" /\ event.stale /\ event.acted)


\* C13: once the target has reached the exit no capture is signalled for that level, so
\* gameOver and levelComplete are never both true
C13_NoCaptureAfterExit ==
  ~(gameOver /\ levelComplete)

\* C14: capture is never signalled in a step during which the target's invincibility
\* effect is active
C14_InvincibleNotCaptured ==
  [][has(activePowerUps, "invincibility") => (gameOver' => gameOver)]_vars

\* C15: an adversary step onto the cell the target occupies, with invincibility not
\* active, sets gameOver in that same step
C15_CaptureOnContact ==
  [][(/\ event'.name = "update"
      /\ enemyPosition' # enemyPosition
      /\ enemyPosition' = playerPosition'
      /\ ~has(activePowerUps, "invincibility")
      /\ ~has(activePowerUps', "invincibility")) => gameOver']_vars

C15_Witness ==
  /\ pc = "game"
  /\ event.name = "update"
  /\ gameOver
  /\ ~levelComplete
  /\ enemyPathIndex > 0
  /\ enemyPosition = playerPosition
  /\ enemyPosition # playerStartPosition
  /\ ~has(activePowerUps, "invincibility")

\* C16: when the target shares the cell of an active, unfrozen adversary standing at the
\* end of its path and invincibility is not set, the adversary's next step tick signals
\* capture
C16_CaptureOnCoincidence ==
  [][(/\ event'.name = "update"
      /\ enemyActive /\ enemyActive'
      /\ ~gameOver /\ ~levelComplete
      /\ enemyMoveTimer + sinceFrame >= enemySpeed
      /\ enemyPathIndex >= Len(enemyPath) - 1
      /\ enemyPosition = playerPosition
      /\ playerPosition' = playerPosition
      /\ ~has(activePowerUps, "invincibility")) => gameOver']_vars

\* the integer nearest to 400 * 0.8^(n - 1), found by search rather than by division
NearestToGeometric(n, r) ==
  LET den == Power(5, n - 1)
      num == 400 * Power(4, n - 1)
  IN /\ r <= 2147483647 \div den
     /\ (IF r * den >= num THEN r * den - num ELSE num - r * den) <= den \div 2

\* C17: the move interval startLevel sets for level n is max(50, round(400 * 0.8^(n-1))):
\* 400 at level 1, never above the interval of the level before, never below 50
\* (400 * 4^(n-1) is searched up to n = 12; from there on 400 * 0.8^(n-1) is below
\* 400 * 0.8^11 < 35, whose maximum with 50 is 50)
C17_SpeedSchedule ==
  [][(pc = "setup" /\ pc' = "ready") =>
       /\ IF level' <= 12
          THEN \E r \in 0..400 : NearestToGeometric(level', r)
                                  /\ enemySpeed' = (IF r > 50 THEN r ELSE 50)
          ELSE enemySpeed' = 50
       /\ (level' = 1 => enemySpeed' = 400)
       /\ enemySpeed' <= enemySpeed
       /\ enemySpeed' >= 50]_vars

\* a level past the first whose interval is the floor
C17_Witness == pc = "ready" /\ level > 1 /\ enemySpeed = 50 /\ event.name = "next"

\* C18: at the start of every level the adversary stands on the target's starting corner,
\* and the exit is another corner
C18_SpawnAtStart ==
  pc = "ready" =>
    LET cs == {corners(width, height)[k] : k \in 1..4}
    IN /\ enemyPosition = playerStartPosition
       /\ playerPosition = playerStartPosition
       /\ playerStartPosition \in cs
       /\ exitPosition \in cs
       /\ exitPosition # playerStartPosition

\* a level begun with the target away from the top-left corner
C18_Witness ==
  /\ pc = "ready"
  /\ level > 1
  /\ playerStartPosition = Pos(width - 1, height - 1)
  /\ enemyPosition = playerStartPosition
  /\ exitPosition = Pos(0, height - 1)

OuterClosed(c, w, h) ==
  \A p \in Grid(w, h) :
    /\ (p.y = 0 => c[p].walls.top)
    /\ (p.y = h - 1 => c[p].walls.bottom)
    /\ (p.x = 0 => c[p].walls.left)
    /\ (p.x = w - 1 => c[p].walls.right)

\* C20: generate on a grid one cell wide or one cell high ends without an error, and
\* the maze it returns is a corridor: all cells joined, facing wall flags equal, rim closed
C20_CorridorValid ==
  (width = 1 \/ height = 1) =>
    /\ pc # "threw"
    /\ pc = "done" => /\ FullyConnected(cells, width, height)
                      /\ WallSymmetry(cells, width, height)
                      /\ OuterClosed(cells, width, height)

\* C23: power-up effects do not carry over between levels: when a level starts no timed
\* effect is active and no freeze timer is pending
C23_NoCarryOver ==
  event.name \in {"next", "restart"} =>
    /\ activePowerUps = NoEffects
    /\ \A t \in timers : t.kind # "freeze"

\* C24: during a level the player's position changes only in update, and only to an
\* adjacent cell of the grid through an open wall of the cell left
C24_MovesThroughOpenWalls ==
  [][event'.name \notin {"next", "restart"} =>
       \/ playerPosition' = playerPosition
       \/ /\ event'.name = "update"
          /\ OpenStep(cells, width, height, playerPosition, playerPosition')]_vars

\* the player has moved off the starting corner and the level goes on
C24_Witness ==
  /\ pc = "game"
  /\ event.name = "update"
  /\ playerPosition # playerStartPosition
  /\ ~gameOver /\ ~levelComplete
  /\ \E q \in Grid(width, height) :
       Adjacent(playerPosition, q) /\ cells[playerPosition].walls[Facing(playerPosition, q)]

RECURSIVE SimplePaths(_, _, _, _, _, _)
SimplePaths(c, w, h, a, b, seen) ==
  IF a = b THEN 1
  ELSE LET via(q) == IF OpenStep(c, w, h, a, q) /\ q \notin seen
                     THEN SimplePaths(c, w, h, q, b, seen \cup {q}) ELSE 0
       IN via(Pos(a.x, a.y - 1)) + via(Pos(a.x + 1, a.y))
          + via(Pos(a.x, a.y + 1)) + via(Pos(a.x - 1, a.y))

\* generateMazeRecursive(0, 0) has returned and nothing else has run yet
AfterCarve == (pc = "carve" /\ stack = <<>>) \/ (pc = "loops" /\ i = 0)

\* C26: right after the carve step every cell is visited and the open-wall graph is a
\* spanning tree: connected, width * height - 1 open wall pairs, and exactly one simple
\* route between any two cells
C26_CarveSpanningTree ==
  AfterCarve =>
    /\ \A p \in Grid(width, height) : cells[p].visited
    /\ FullyConnected(cells, width, height)
    /\ Cardinality(OpenPairs(cells, width, height)) = width * height - 1
    /\ \A a \in Grid(width, height), b \in Grid(width, height) :
         SimplePaths(cells, width, height, a, b, {a}) = 1

\* a carved grid with more than one row and more than one column
C26_Witness ==
  /\ pc = "loops" /\ i = 0
  /\ width >= 2 /\ height >= 2
  /\ width * height >= 6
  /\ \A p \in Grid(width, height) : cells[p].visited

\* C28: addDeadEnds opens a wall only from a cell with 2 or 3 openings toward a neighbour
\* in the grid that has exactly one opening then, and the neighbour still has exactly one
\* open wall after the wall is opened
C28_NeighborStaysDeadEnd ==
  [][(pc = "deadends" /\ lastOpen'.step = "deadend") =>
       /\ countOpenings(cells[lastOpen'.from]) \in 2..3
       /\ lastOpen'.to \in Grid(width, height)
       /\ Adjacent(lastOpen'.from, lastOpen'.to)
       /\ countOpenings(cells[lastOpen'.to]) = 1
       /\ countOpenings(cells'[lastOpen'.to]) = 1]_vars

\* some pair of the four corners has no route between them
SomeCornersApart(c, w, h) ==
  \E a \in 1..4, b \in 1..4 : ~Joined(c, w, h, corners(w, h)[a], corners(w, h)[b])

\* C29: ensureSolvable discards the maze and starts again from initializeCells exactly when
\* one of the six corner pairs is unreachable, and the maze present when it has returned
\* has all four corners pairwise reachable
C29_RegeneratesUnsolvable ==
  [][/\ (pc \in {"ensure", "done"} /\ i' = i + 1) =>
          /\ event'.acted = SomeCornersApart(cells, width, height)
          /\ event'.acted =>
               /\ pc' = "recarve"
               /\ \A p \in Grid(width, height) :
                    /\ cells'[p].walls = [top |-> TRUE, right |-> TRUE, bottom |-> TRUE, left |-> TRUE]
                    /\ cells'[p].visited = (p = Pos(0, 0))
          /\ ~event'.acted => pc' = "done"
     /\ (pc' = "done" /\ event'.name = "ensure") =>
          ~SomeCornersApart(cells', width, height)]_vars

\* a maze that was regenerated has been returned
C29_Witness ==
  /\ pc = "done"
  /\ event.name = "ensure" /\ event.acted
  /\ width >= 2 /\ height >= 2
  /\ stack = <<>>

\* C30: the solvability check on a maze whose corners are pairwise reachable changes no
\* wall flag, and a second check right after it on the same maze gives the same verdict
C30_CheckIsIdempotent ==
  [][(pc \in {"ensure", "done"} /\ i' = i + 1) =>
       /\ ~SomeCornersApart(cells, width, height) => cells' = cells /\ ~event'.acted
       /\ (i >= 1 /\ event.name = "ensure") => (event'.acted = event.acted /\ cells' = cells)]_vars

\* two checks in a row have been run on one maze
C30_Witness ==
  /\ pc = "done"
  /\ i = 2
  /\ event.name = "ensure" /\ ~event.acted
  /\ width * height >= 4

\* a frame in which the adversary's move timer reaches the move interval
StepTick ==
  /\ pc = "pursuit"
  /\ event'.name = "update"
  /\ enemyActive
  /\ enemyMoveTimer + sinceFrame' >= enemySpeed

\* seq is a shortest route through open walls from a to b
ShortestRoute(c, w, h, seq, a, b) ==
  /\ Len(seq) = Distance(c, w, h, a, b) + 1
  /\ seq[1] = a
  /\ seq[Len(seq)] = b
  /\ \A k \in 1..(Len(seq) - 1) : OpenStep(c, w, h, seq[k], seq[k + 1])

\* C21: when no route leads from the adversary to the target, a step tick leaves the
\* adversary where it is, raises no error and signals no capture, and leaves the path empty
\* with index 0, so that the next step tick asks for the path again
C21_HoldsOnEmptyPath ==
  [][(StepTick /\ ~Joined(cells, width, height, enemyPosition, playerPosition)) =>
       /\ ~findPath(cells, width, height, enemyPosition, playerPosition).threw
       /\ enemyPosition' = enemyPosition
       /\ ~gameOver'
       /\ enemyPath' = <<>>
       /\ enemyPathIndex' = 0
       /\ enemyActive'
       /\ enemyMoveTimer' = 0]_vars

\* a step tick has found no route to the target and the game goes on
C21_Witness ==
  /\ pc = "pursuit"
  /\ event.name = "update"
  /\ enemyMoveTimer = 0
  /\ sinceFrame = PursuitTickMs
  /\ enemyPath = <<>>
  /\ ~Joined(cells, width, height, enemyPosition, playerPosition)
  /\ ~gameOver

C27_RecomputeAtPathEnds ==
  [][StepTick =>
       IF enemyPathIndex = 0 \/ enemyPathIndex >= Len(enemyPath) - 1
       THEN /\ Joined(cells, width, height, enemyPosition, playerPosition) =>
                 ShortestRoute(cells, width, height, enemyPath', enemyPosition, playerPosition)
            /\ ~Joined(cells, width, height, enemyPosition, playerPosition) => enemyPath' = <<>>
            /\ enemyPathIndex' = (IF Len(enemyPath') > 1 THEN 1 ELSE 0)
            /\ enemyPosition' = (IF Len(enemyPath') > 1 THEN enemyPath'[2] ELSE enemyPosition)
       ELSE /\ enemyPath' = enemyPath
            /\ enemyPathIndex' = enemyPathIndex + 1
            /\ enemyPosition' = enemyPath[enemyPathIndex + 2]]_vars

\* the adversary has gone on along its path after the target left the path's end
C27_Witness ==
  /\ pc = "pursuit"
  /\ event.name = "update"
  /\ enemyMoveTimer = 0
  /\ enemyPathIndex >= 2
  /\ enemyPosition = enemyPath[enemyPathIndex + 1]
  /\ playerPosition # enemyPath[Len(enemyPath)]
  /\ ~gameOver

\* C31: in the older generator, for difficulty > 3, the maze generate returns after
\* addExtraWalls is still fully connected (the four corners pairwise reachable among
\* the rest) and facing wall flags are still equal
C31_ExtraWallsKeepConnected ==
  (pc = "done" /\ difficulty > ExtraWallsAbove /\ attempts.extraWalls > 0) =>
    /\ FullyConnected(cells, width, height)
    /\ \A a \in 1..4, b \in 1..4 :
         Joined(cells, width, height, corners(width, height)[a], corners(width, height)[b])
    /\ WallSymmetry(cells, width, height)

\* the expiry callbacks of freezes that are scheduled and have not run
FreezeTimers == {t \in timers : t.kind = "freeze"}

\* an update in which the player collects a freeze power-up
FreezeCollected ==
  /\ event'.name = "update"
  /\ Len(powerUps') = Len(powerUps)
  /\ \E n \in 1..Len(powerUps) :
       powerUps[n].type = "freeze" /\ ~powerUps[n].collected /\ powerUps'[n].collected

\* C32: collecting a freeze while one is pending cancels the earlier expiry timer: at
\* most one freeze-expiry timer is pending at any time, the timer pending after a
\* collection has the full duration to run, and an expiry callback that reactivates the
\* adversary runs no earlier than the full duration after the latest collection
C32_OneFreezeTimer ==
  [][/\ Cardinality(FreezeTimers') <= 1
     /\ FreezeCollected => \A t \in FreezeTimers' : t.remaining = PowerUpDuration
     /\ (event'.name = "freeze" /\ event'.acted) => freezeLeft' = 0]_vars

\* a call of updateEnemy on an active adversary
UpdateEnemyCall ==
  /\ pc = "pursuit"
  /\ event'.name = "update"
  /\ enemyActive

\* on a step tick the path, recomputed where the code recomputes it, has no cell after
\* the adversary's: the adversary stands on the target's cell or no route leads to it
NoNextCell ==
  /\ enemyPathIndex = 0 \/ enemyPathIndex >= Len(enemyPath) - 1
  /\ \/ enemyPosition = playerPosition
     \/ ~Joined(cells, width, height, enemyPosition, playerPosition)

\* what every call of updateEnemy on an active adversary does to the accumulator, and the
\* most it does to the position
AccumulatorRule ==
  /\ enemyMoveTimer' < enemySpeed
  /\ enemyPosition' = enemyPosition \/ OpenStep(cells, width, height, enemyPosition, enemyPosition')
  /\ IF StepTick
     THEN enemyMoveTimer' = 0
     ELSE enemyMoveTimer' = enemyMoveTimer + sinceFrame' /\ enemyPosition' = enemyPosition

C34_AdversaryMovesByOpenSteps ==
  [][(pc = "game" /\ enemyPosition' # enemyPosition /\ event'.name \notin {"next", "restart"}) =>
       OpenStep(cells, width, height, enemyPosition, enemyPosition')]_vars

\* C35: whenever the adversary is active, enemyPathIndex >= 0, and if enemyPath is not
\* empty then enemyPathIndex <= enemyPath.length - 1 and enemyPosition is the cell
\* enemyPath[enemyPathIndex]
C35_IndexWithinPath ==
  (pc \in {"game", "pursuit"} /\ enemyActive) =>
    /\ enemyPathIndex >= 0
    /\ enemyPath # <<>> =>
         /\ enemyPathIndex <= Len(enemyPath) - 1
         /\ enemyPosition = enemyPath[enemyPathIndex + 1]

\* in a level after the first, the active adversary is some steps along a path that goes on
C35_Witness ==
  /\ pc = "game"
  /\ level >= 2
  /\ enemyActive
  /\ enemyPathIndex >= 1
  /\ Len(enemyPath) > enemyPathIndex + 1
  /\ enemyPosition = enemyPath[enemyPathIndex + 1]
  /\ enemyPosition # playerStartPosition

\* C36: at the moment the adversary becomes active in a level its step accumulator
\* enemyMoveTimer is 0, whatever happened in earlier levels, so that its first step comes
\* one full move interval after the activation
C36_AccumulatorZeroAtActivation ==
  [][(pc = "game" /\ event'.name = "arm" /\ ~enemyActive /\ enemyActive') =>
       enemyMoveTimer' = 0]_vars

\* C37: no generation step opens a wall on the rim of the grid: during generate and in the
\* maze it returns, the top walls of row 0, the bottom walls of the last row, the left
\* walls of column 0 and the right walls of the last column are closed
C37_OuterWallsClosed ==
  pc \in {"carve", "loops", "deadends", "ensure", "recarve", "done"} =>
    OuterClosed(cells, width, height)

\* generate has returned a maze in which addLoops or addDeadEnds opened a wall
C37_Witness ==
  /\ pc = "done"
  /\ width >= 2 /\ height >= 2
  /\ Cardinality(OpenPairs(cells, width, height)) >= width * height
  /\ OuterClosed(cells, width, height)

C39_PowerUpPlacement ==
  pc = "placed" =>
    /\ Len(powerUps) = Min(2 + (level \div 2), 5)
    /\ Len(powerUps) >= 2 /\ Len(powerUps) <= 5
    /\ \A k \in 1..Len(powerUps) :
         /\ powerUps[k].position \in Grid(width, height)
         /\ powerUps[k].position # playerStartPosition
         /\ powerUps[k].position # exitPosition
    /\ \A k \in 1..Len(powerUps), m \in 1..Len(powerUps) :
         k # m => powerUps[k].position # powerUps[m].position

\* at a level where 2 + floor(level / 2) exceeds 5, five power-ups have been placed
C39_Witness ==
  /\ pc = "placed"
  /\ 2 + (level \div 2) > 5
  /\ Len(powerUps) = 5

====
